---- MODULE Spec2Model ----
(***************************************************************************)
(* Model of the PDFium bridge of noto-pdf-ts.                              *)
(*                                                                         *)
(*   packages/core/src/pdfium/library.ts   PDFiumLibrary, PDFiumDocument,  *)
(*                                         PDFiumPage                      *)
(*   src/pdf-document.ts                   PdfDocumentImpl and its helpers *)
(*                                                                         *)
(* The native module (the engine and its allocator) is the environment:    *)
(* its state is the set of live allocations, the documents the engine has  *)
(* loaded.  Every TypeScript function is an operator from a                 *)
(* world (the native state plus the log of native calls) to a new world    *)
(* and a result; every public operation is one action.                     *)
(***************************************************************************)
EXTENDS Integers, Sequences, FiniteSets, TLC

\* ------------------------------------------------------------------ bounds
MaxDocs == 1        \* documents opened in one run
MaxPages == 2       \* pages of a document
MaxChars == 2       \* characters in the text view of a page
MaxThreshold == 1   \* largest missingGlyphThreshold tried
MaxTraps == 1       \* render calls left by an exception, per run
MaxCallers == 2     \* concurrent callers of the top-level functions
MaxBytes == 8       \* length of a buffer given to convertBgraToRgba
MaxToks == 3        \* /Subtype and /BaseFont tokens in the bytes of a document
MaxEntries == 2     \* records of an archive given to extractFontFromZip
MaxLiteDocs == 2    \* documents opened by renderPdfPages and getPageCount
MaxRegisters == 2   \* registerFonts calls on one module
MaxCloses == 2      \* close() calls on one PDFiumPage
MaxPaths == 2       \* font search paths given to createFontPathsArray
MaxPathLen == 2     \* characters of a font search path
MaxLoads == 1       \* loadDocument calls on one module, memory contents modelled

VARIABLES
  heap,             \* allocator: live pointer -> what it was allocated for
  badFree,          \* pointers passed to free while not allocated
  engine,           \* engine: library status and the loaded documents
  library,          \* the PDFiumLibrary object
  docs,             \* the PDFiumDocument objects, in order of creation
  pageHandle,       \* pagePtr of the PDFiumPage the caller holds (0: none)
  libraryInstance,  \* pdf-document.ts: the cached library (0: null)
  modules,          \* the WASM modules loaded by PDFiumLibrary.init()
  callers,          \* the top-level calls in flight
  pdfs,             \* the PdfDocumentImpl objects, in order of creation
  task,             \* the render call or generator in flight
  lastOp            \* the last operation: arguments, native calls, outcome

vars == <<heap, badFree, engine, library, docs, pageHandle,
          libraryInstance, modules, callers, pdfs, task, lastOp>>

\* ------------------------------------------------- the world of a function
\* calls: the native calls of the operation so far; uac: those of them made on
\* a document the engine has already closed, as <<entry, docPtr>>.
World == [heap |-> heap, badFree |-> badFree, engine |-> engine, uac |-> {},
          calls |-> <<>>]

SetWorld(w) ==
  /\ heap' = w.heap
  /\ badFree' = w.badFree
  /\ engine' = w.engine

Call(w, fn, arg) == [w EXCEPT !.calls = Append(@, <<fn, arg>>)]

\* ------------------------------------------------------------- allocator
\* malloc returns the lowest address that is not allocated.
NewPtr(w) ==
  CHOOSE p \in 1..(Cardinality(DOMAIN w.heap) + 1) :
    /\ p \notin DOMAIN w.heap
    /\ \A q \in 1..(p - 1) : q \in DOMAIN w.heap

Malloc(w, kind) ==
  LET p == NewPtr(w)
  IN Call([w EXCEPT !.heap = (p :> kind) @@ @], "malloc", p)

Free(w, p) ==
  Call([w EXCEPT !.heap = [q \in (DOMAIN @) \ {p} |-> @[q]],
                 !.badFree = IF p \in DOMAIN w.heap THEN @ ELSE @ \cup {p}],
       "free", p)

\* --------------------------------------------------------------- engine
\* Pointers the engine hands out.  A document pointer is the position of the
\* document in engine.docs; a page pointer encodes its document and index.
PagePtr(docPtr, pageIndex) == docPtr * 10 + pageIndex
DocOfPage(pagePtr) == pagePtr \div 10
TextPagePtr(pagePtr) == 1000 + pagePtr
BitmapPtr(bufferPtr) == 2000 + bufferPtr

DocReleased(w, docPtr) ==
  \/ docPtr \notin 1..Len(w.engine.docs)
  \/ ~w.engine.docs[docPtr].open

\* A call that takes a document or one of its pages: recorded when the
\* document has been closed.
DocCall(w, fn, docPtr, arg) ==
  Call([w EXCEPT !.uac = IF DocReleased(w, docPtr)
                            THEN @ \cup {<<fn, docPtr>>} ELSE @],
       fn, arg)

FPDF_InitLibraryWithConfig(w, configPtr) ==
  Call([w EXCEPT !.engine.lib = "ready"], "FPDF_InitLibraryWithConfig", configPtr)

FPDF_DestroyLibrary(w) ==
  Call([w EXCEPT !.engine.lib = "destroyed"], "FPDF_DestroyLibrary", 0)

\* eng = [ok, code, pages]: what the engine makes of the bytes.
FPDF_LoadMemDocument(w, dataPtr, eng) ==
  Call([w EXCEPT !.engine.docs =
          IF eng.ok
            THEN Append(@, [open |-> TRUE, pages |-> eng.pages, closeCalls |-> 0,
                            closedPages |-> <<>>])
            ELSE @],
       "FPDF_LoadMemDocument", dataPtr)

LoadedDocPtr(w, eng) == IF eng.ok THEN Len(w.engine.docs) + 1 ELSE 0

FPDF_CloseDocument(w, docPtr) ==
  LET w1 == DocCall(w, "FPDF_CloseDocument", docPtr, docPtr)
  IN [w1 EXCEPT !.engine.docs[docPtr].open = FALSE,
                !.engine.docs[docPtr].closeCalls = @ + 1]

FPDF_GetPageCount(w, docPtr) == DocCall(w, "FPDF_GetPageCount", docPtr, docPtr)

\* On a released document the engine reads freed memory: `stale` says whether
\* the old contents are still there.
PageCountResult(w, docPtr, stale) ==
  IF DocReleased(w, docPtr) /\ ~stale THEN 0 ELSE w.engine.docs[docPtr].pages

LoadPageResult(w, docPtr, pageIndex, stale) ==
  IF /\ ~(DocReleased(w, docPtr) /\ ~stale)
     /\ 0 <= pageIndex
     /\ pageIndex < w.engine.docs[docPtr].pages
    THEN PagePtr(docPtr, pageIndex)
    ELSE 0

FPDF_LoadPage(w, docPtr, pageIndex) == DocCall(w, "FPDF_LoadPage", docPtr, pageIndex)

PageCall(w, fn, pagePtr) == DocCall(w, fn, DocOfPage(pagePtr), pagePtr)

\* closedPages: the page pointers the engine was asked to close, in order.
FPDF_ClosePage(w, pagePtr) ==
  LET w1 == PageCall(w, "FPDF_ClosePage", pagePtr)
  IN [w1 EXCEPT !.engine.docs[DocOfPage(pagePtr)].closedPages = Append(@, pagePtr)]

\* The elements of a sequence.
Range(seq) == {seq[i] : i \in 1..Len(seq)}

\* ------------------------------------------------------ errors and results
NoError == [message |-> "", arg |-> 0]
MkError(msg, n) == [message |-> msg, arg |-> n]

\* ------------------------------------------------ library.ts: PDFiumLibrary
PDFIUM_FONT_PATHS ==
  <<"/fonts", "/usr/share/fonts", "/usr/share/X11/fonts/Type1",
    "/usr/share/X11/fonts/TTF", "/usr/local/share/fonts">>

NoLibrary == [exists |-> FALSE, initialized |-> FALSE, fontPathPtrs |-> <<>>]

\* The loop of createFontPathsArray over paths[i..]: one allocation per path,
\* each pushed on fontPathPtrs.
RECURSIVE AllocFontPaths(_, _, _, _)
AllocFontPaths(w, ptrs, paths, i) ==
  IF i > Len(paths)
    THEN [w |-> w, ptrs |-> ptrs]
    ELSE AllocFontPaths(Malloc(w, "fontPath"), Append(ptrs, NewPtr(w)), paths, i + 1)

createFontPathsArray(w, lib, paths) ==
  LET arrayPtr == NewPtr(w)
      w1 == Malloc(w, "fontPathArray")
      r == AllocFontPaths(w1, Append(lib.fontPathPtrs, arrayPtr), paths, 1)
  IN [w |-> r.w, lib |-> [lib EXCEPT !.fontPathPtrs = r.ptrs], arrayPtr |-> arrayPtr]

\* initLibraryConfig that keeps the config struct allocated.
initLibraryConfigKeepsStruct(w, lib) ==
  IF lib.initialized
    THEN [w |-> w, lib |-> lib]
    ELSE
      LET configPtr == NewPtr(w)
          w1 == Malloc(w, "config")
          r == createFontPathsArray(w1, lib, PDFIUM_FONT_PATHS)
          w2 == FPDF_InitLibraryWithConfig(r.w, configPtr)
      IN [w |-> w2, lib |-> [r.lib EXCEPT !.initialized = TRUE]]

initLibraryConfig(w, lib) ==
  IF lib.initialized
    THEN [w |-> w, lib |-> lib]
    ELSE
      LET configPtr == NewPtr(w)
          w1 == Malloc(w, "config")
          r == createFontPathsArray(w1, lib, PDFIUM_FONT_PATHS)
          w2 == FPDF_InitLibraryWithConfig(r.w, configPtr)
          w3 == Free(w2, configPtr)
      IN [w |-> w3, lib |-> [r.lib EXCEPT !.initialized = TRUE]]

\* PDFiumLibrary.init -> initWithLoader: new PDFiumLibrary(module), then
\* initLibraryConfig.
LibraryInit(w) ==
  initLibraryConfig(w, [exists |-> TRUE, initialized |-> FALSE, fontPathPtrs |-> <<>>])

FPDF_SUCCESS == 0
FPDF_UNKNOWN == 1
FPDF_FILE == 2
FPDF_FORMAT == 3
FPDF_PASSWORD == 4
FPDF_SECURITY == 5
FPDF_PAGE == 6

createError(code) ==
  CASE code = FPDF_SUCCESS -> MkError("Success", 0)
    [] code = FPDF_UNKNOWN -> MkError("Unknown error", 0)
    [] code = FPDF_FILE -> MkError("File not found or could not be opened", 0)
    [] code = FPDF_FORMAT -> MkError("File not in PDF format or corrupted", 0)
    [] code = FPDF_PASSWORD -> MkError("Password required or incorrect password", 0)
    [] code = FPDF_SECURITY -> MkError("Unsupported security scheme", 0)
    [] code = FPDF_PAGE -> MkError("Page not found or content error", 0)
    [] OTHER -> MkError("PDFium error: ", code)

\* password: "undefined" when the argument is not given; `if (password)` is
\* false for undefined and for the empty string.
Truthy(password) == password # "undefined" /\ password # ""

PasswordBuffer(w, password) ==
  IF Truthy(password) THEN Malloc(w, "password") ELSE w

FreePassword(w, passwordPtr) ==
  IF passwordPtr # 0 THEN Free(w, passwordPtr) ELSE w

\* The error path of loadDocument without the free of the data buffer.
LoadFailureLeaks(w, dataPtr, code) ==
  [w |-> Call(w, "FPDF_GetLastError", 0), status |-> "throw", error |-> createError(code),
   doc |-> [docPtr |-> 0, dataPtr |-> 0, destroyed |-> FALSE]]

LoadFailure(w, dataPtr, code) ==
  LET w1 == Free(w, dataPtr)
      w2 == Call(w1, "FPDF_GetLastError", 0)
  IN [w |-> w2, status |-> "throw", error |-> createError(code),
      doc |-> [docPtr |-> 0, dataPtr |-> 0, destroyed |-> FALSE]]

loadDocument(w, password, eng) ==
  LET dataPtr == NewPtr(w)
      w1 == Malloc(w, "data")
      passwordPtr == IF Truthy(password) THEN NewPtr(w1) ELSE 0
      w2 == PasswordBuffer(w1, password)
      docPtr == LoadedDocPtr(w2, eng)
      w3 == FPDF_LoadMemDocument(w2, dataPtr, eng)
      w4 == FreePassword(w3, passwordPtr)
  IN IF docPtr = 0
       THEN LoadFailure(w4, dataPtr, eng.code)
       ELSE [w |-> w4, status |-> "ok", error |-> NoError,
             doc |-> [docPtr |-> docPtr, dataPtr |-> dataPtr, destroyed |-> FALSE]]

RECURSIVE FreeAll(_, _, _)
FreeAll(w, ptrs, i) ==
  IF i > Len(ptrs) THEN w ELSE FreeAll(Free(w, ptrs[i]), ptrs, i + 1)

\* destroy() that forgets the font-path memory.
LibraryDestroyKeepsPaths(w, lib) ==
  IF lib.initialized
    THEN [w |-> FPDF_DestroyLibrary(w),
          lib |-> [lib EXCEPT !.fontPathPtrs = <<>>, !.initialized = FALSE]]
    ELSE [w |-> w, lib |-> lib]

LibraryDestroy(w, lib) ==
  IF lib.initialized
    THEN [w |-> FreeAll(FPDF_DestroyLibrary(w), lib.fontPathPtrs, 1),
          lib |-> [lib EXCEPT !.fontPathPtrs = <<>>, !.initialized = FALSE]]
    ELSE [w |-> w, lib |-> lib]

\* ----------------------------------------------- library.ts: PDFiumDocument
getPageCount(w, doc, stale) ==
  [w |-> FPDF_GetPageCount(w, doc.docPtr), status |-> "ok", error |-> NoError,
   value |-> PageCountResult(w, doc.docPtr, stale)]

\* getPage that wraps whatever load-page returns.
getPageUnchecked(w, doc, pageIndex, stale) ==
  LET pagePtr == LoadPageResult(w, doc.docPtr, pageIndex, stale)
      w1 == FPDF_LoadPage(w, doc.docPtr, pageIndex)
  IN [w |-> w1, status |-> "ok", error |-> NoError, value |-> pagePtr]

getPage(w, doc, pageIndex, stale) ==
  LET pagePtr == LoadPageResult(w, doc.docPtr, pageIndex, stale)
      w1 == FPDF_LoadPage(w, doc.docPtr, pageIndex)
  IN IF pagePtr = 0
       THEN [w |-> w1, status |-> "throw",
             error |-> MkError("Failed to load page ", pageIndex), value |-> 0]
       ELSE [w |-> w1, status |-> "ok", error |-> NoError, value |-> pagePtr]

\* destroy() without its `destroyed` guard.
DocumentDestroyUnguarded(w, doc) ==
  LET w1 == FPDF_CloseDocument(w, doc.docPtr)
      w2 == IF doc.dataPtr # 0 THEN Free(w1, doc.dataPtr) ELSE w1
  IN [w |-> w2, doc |-> [doc EXCEPT !.destroyed = TRUE]]

DocumentDestroy(w, doc) ==
  IF doc.destroyed
    THEN [w |-> w, doc |-> doc]
    ELSE
      LET w1 == FPDF_CloseDocument(w, doc.docPtr)
          w2 == IF doc.dataPtr # 0 THEN Free(w1, doc.dataPtr) ELSE w1
      IN [w |-> w2, doc |-> [doc EXCEPT !.destroyed = TRUE]]

\* --------------------------------------------------- library.ts: PDFiumPage
BYTES_PER_PIXEL == 4

\* A buffer whose rows are padded to a multiple of 8 bytes.
BufferSizePadded(width, height) ==
  ((width * BYTES_PER_PIXEL + 7) \div 8) * 8 * height

\* stride = width * BYTES_PER_PIXEL; bufferSize = stride * height
BufferSize(width, height) == (width * BYTES_PER_PIXEL) * height

\* Math.ceil(points * scale) for a scale given as <<numerator, denominator>>.
CeilScaled(points, scale) == (points * scale[1] + scale[2] - 1) \div scale[2]

Count(chars) == Cardinality({i \in 1..Len(chars) : chars[i]})

\* The loop of checkMissingGlyphs over the character indices i..charCount-1;
\* chars[i + 1] is what has-unicode-map-error answers for index i.
RECURSIVE CountMapErrors(_, _, _, _, _)
CountMapErrors(w, textPagePtr, chars, i, missingCount) ==
  IF i >= Len(chars)
    THEN [w |-> w, missingCount |-> missingCount]
    ELSE CountMapErrors(Call(w, "FPDFText_HasUnicodeMapError", i), textPagePtr, chars,
                        i + 1, IF chars[i + 1] THEN missingCount + 1 ELSE missingCount)

\* A finally block that releases nothing.
TextFinallyNone(w, textPagePtr) == w

\* The finally block of checkMissingGlyphs.
TextFinally(w, textPagePtr) == Call(w, "FPDFText_ClosePage", textPagePtr)

\* What FPDFText_LoadPage returns for the page.
TextLoadPage(pagePtr, page) == IF page.textOK THEN TextPagePtr(pagePtr) ELSE 0

\* page = [textOK, chars, width, height]: what the engine knows of the page.
checkMissingGlyphs(w, pagePtr, page) ==
  LET textPagePtr == TextLoadPage(pagePtr, page)
      w1 == PageCall(w, "FPDFText_LoadPage", pagePtr)
  IN IF textPagePtr = 0
       THEN [w |-> w1, hasMissingGlyphs |-> FALSE, missingCount |-> 0]
       ELSE
         LET w2 == Call(w1, "FPDFText_CountChars", textPagePtr)
             r == CountMapErrors(w2, textPagePtr, page.chars, 0, 0)
             w3 == TextFinally(r.w, textPagePtr)
         IN [w |-> w3, hasMissingGlyphs |-> r.missingCount > 0,
             missingCount |-> r.missingCount]

\* The engine calls inside the try block of checkMissingGlyphs.
TextSteps == {"FPDFText_CountChars", "FPDFText_HasUnicodeMapError"}

\* checkMissingGlyphs when `step` throws, has-unicode-map-error at index `at`:
\* the exception leaves the try block and the finally block runs.  A page
\* without a text view, or a loop that never reaches `at`, returns as usual.
checkMissingGlyphsThrows(w, pagePtr, page, step, at) ==
  LET textPagePtr == TextLoadPage(pagePtr, page)
      w1 == PageCall(w, "FPDFText_LoadPage", pagePtr)
      w2 == Call(w1, "FPDFText_CountChars", textPagePtr)
      r == CountMapErrors(w2, textPagePtr, SubSeq(page.chars, 1, at + 1), 0, 0)
      normal == checkMissingGlyphs(w, pagePtr, page)
  IN IF textPagePtr = 0
       THEN [w |-> normal.w, status |-> "ok", missingCount |-> normal.missingCount]
       ELSE IF step = "FPDFText_CountChars"
         THEN [w |-> TextFinally(w2, textPagePtr), status |-> "throw", missingCount |-> 0]
         ELSE IF at < Len(page.chars)
           THEN [w |-> TextFinally(r.w, textPagePtr), status |-> "throw",
                 missingCount |-> 0]
           ELSE [w |-> normal.w, status |-> "ok", missingCount |-> normal.missingCount]

\* The threshold test with >= for >.
GlyphCheckFailsAtThreshold(glyphCheck, missingGlyphThreshold) ==
  glyphCheck.hasMissingGlyphs /\ glyphCheck.missingCount >= missingGlyphThreshold

GlyphCheckFails(glyphCheck, missingGlyphThreshold) ==
  glyphCheck.hasMissingGlyphs /\ glyphCheck.missingCount > missingGlyphThreshold

\* A rectangle that leaves the last row of the bitmap out.
FillRectShort(width, height) ==
  [left |-> 0, top |-> 0, width |-> width, height |-> height - 1, color |-> <<255, 255, 255, 255>>]

\* The arguments of FPDFBitmap_FillRect after the bitmap: 0, 0, width, height,
\* 0xffffffff; the colour is written as its bytes A, R, G, B.
FillRect(width, height) ==
  [left |-> 0, top |-> 0, width |-> width, height |-> height, color |-> <<255, 255, 255, 255>>]

\* The number of bytes of a buffer of rows of `stride` bytes that a fill of
\* `rect`, a rectangle at the origin, does not write.
Unwritten(bufferSize, stride, rect) ==
  LET rows == IF rect.height * stride < bufferSize THEN rect.height
              ELSE bufferSize \div stride
      rowBytes == IF rect.width * BYTES_PER_PIXEL < stride
                    THEN rect.width * BYTES_PER_PIXEL ELSE stride
  IN bufferSize - rows * rowBytes

NoPipeline ==
  [fill |-> FillRect(0, 0), rotate |-> 0, flags |-> 0, unwritten |-> 0]

\* options = [scale, ignoreMissingGlyphs, missingGlyphThreshold], the defaults
\* of render already applied (scale 1, false, 0).
render(w, pagePtr, options, page) ==
  LET w1 == PageCall(w, "FPDF_GetPageWidth", pagePtr)
      width == CeilScaled(page.width, options.scale)
      w2 == PageCall(w1, "FPDF_GetPageHeight", pagePtr)
      height == CeilScaled(page.height, options.scale)
      bufferSize == BufferSize(width, height)
      bufferPtr == NewPtr(w2)
      w3 == Malloc(w2, "framebuffer")
      bitmap == BitmapPtr(bufferPtr)
      w4 == Call(w3, "FPDFBitmap_CreateEx", bufferPtr)
      w5 == Call(w4, "FPDFBitmap_FillRect", bitmap)
      w6 == PageCall(w5, "FPDF_RenderPageBitmap", pagePtr)
      \* data.set(module.HEAPU8.subarray(bufferPtr, bufferPtr + bufferSize))
      w6a == Call(w6, "HEAPU8", bufferPtr)
      w6b == Call(w6a, "data.set", bufferPtr)
      w7 == Call(w6b, "FPDFBitmap_Destroy", bitmap)
      w8 == Free(w7, bufferPtr)
      image == [dataLen |-> bufferSize, width |-> width, height |-> height]
      noImage == [dataLen |-> 0, width |-> 0, height |-> 0]
      rect == FillRect(width, height)
      pipeline ==
        [fill |-> rect, rotate |-> 0, flags |-> 0,
         unwritten |-> Unwritten(bufferSize, width * BYTES_PER_PIXEL, rect)]
  IN IF ~options.ignoreMissingGlyphs
       THEN
         LET glyphCheck == checkMissingGlyphs(w8, pagePtr, page)
         IN IF GlyphCheckFails(glyphCheck, options.missingGlyphThreshold)
              THEN [w |-> glyphCheck.w, status |-> "throw",
                    error |-> MkError("Missing glyphs detected: ", glyphCheck.missingCount),
                    image |-> noImage, pipeline |-> pipeline,
                    missingCount |-> glyphCheck.missingCount]
              ELSE [w |-> glyphCheck.w, status |-> "ok", error |-> NoError,
                    image |-> image, pipeline |-> pipeline,
                    missingCount |-> glyphCheck.missingCount]
       ELSE [w |-> w8, status |-> "ok", error |-> NoError, image |-> image,
             pipeline |-> pipeline, missingCount |-> 0]

\* render when a step of its glyph check throws: the pixels are produced as
\* usual, and the exception of the check leaves render.
renderCheckThrows(w, pagePtr, options, page, step, at) ==
  LET pixels == render(w, pagePtr, [options EXCEPT !.ignoreMissingGlyphs = TRUE], page)
      glyphCheck == checkMissingGlyphsThrows(pixels.w, pagePtr, page, step, at)
  IN [w |-> glyphCheck.w, status |-> glyphCheck.status, error |-> MkError(step, at),
      image |-> [dataLen |-> 0, width |-> 0, height |-> 0],
      pipeline |-> pixels.pipeline, missingCount |-> glyphCheck.missingCount]

\* ------------------------------------------------------ inputs of the model
\* The steps of render between malloc and the cleanup: an engine entry point
\* that traps, or the pixel copy, whose new Uint8Array(bufferSize) throws.
RenderSteps ==
  {"FPDFBitmap_CreateEx", "FPDFBitmap_FillRect", "FPDF_RenderPageBitmap", "copy"}

\* render when `step` throws: no try or finally surrounds the steps, so the
\* exception leaves render from where it is raised.
renderThrows(w, pagePtr, options, page, step) ==
  LET w1 == PageCall(w, "FPDF_GetPageWidth", pagePtr)
      w2 == PageCall(w1, "FPDF_GetPageHeight", pagePtr)
      bufferPtr == NewPtr(w2)
      w3 == Malloc(w2, "framebuffer")
      bitmap == BitmapPtr(bufferPtr)
      w4 == Call(w3, "FPDFBitmap_CreateEx", bufferPtr)
      w5 == Call(w4, "FPDFBitmap_FillRect", bitmap)
      w6 == PageCall(w5, "FPDF_RenderPageBitmap", pagePtr)
      at == CASE step = "FPDFBitmap_CreateEx" -> w4
              [] step = "FPDFBitmap_FillRect" -> w5
              [] OTHER -> w6
  IN [w |-> at, status |-> "throw", error |-> MkError(step, 0),
      image |-> [dataLen |-> 0, width |-> 0, height |-> 0]]

Passwords == {"undefined", "", "secret"}
ErrorCodes == {FPDF_FORMAT, FPDF_PASSWORD, FPDF_PAGE + 1}
EngineLoads ==
  [ok : {TRUE}, code : {FPDF_SUCCESS}, pages : 1..MaxPages]
    \cup [ok : {FALSE}, code : ErrorCodes, pages : {0}]

BoolSeqs(n) == UNION {[1..k -> BOOLEAN] : k \in 0..n}
Scales == {<<1, 1>>, <<3, 2>>}
EnginePages ==
  [textOK : BOOLEAN, chars : BoolSeqs(MaxChars), width : {2, 3}, height : {1, 2}]
PageRenderOptions ==
  [scale : Scales, ignoreMissingGlyphs : BOOLEAN,
   missingGlyphThreshold : (-1)..MaxThreshold]

\* The renders of the lifecycle specification: default options, a page with
\* no text view, with sound text, or with one character in error.
LifecycleOptions ==
  {o \in PageRenderOptions :
     o.scale = <<1, 1>> /\ ~o.ignoreMissingGlyphs /\ o.missingGlyphThreshold = 0}
LifecyclePages ==
  {g \in EnginePages :
     g.width = 3 /\ g.height = 1 /\ Len(g.chars) = 1 /\ (g.textOK \/ g.chars[1])}

\* The pages of the renders whose glyph check throws: one size, every text.
TextPages == {g \in EnginePages : g.width = 3 /\ g.height = 1}

\* Whether freed engine memory still holds its old contents when it is read.
Stale == BOOLEAN

\* What the text view of the page reports: the characters with a mapping error.
MissingOf(page) == IF page.textOK THEN Count(page.chars) ELSE 0

\* ------------------------------------- the `pages` option of renderPages
PagesUndefined ==
  [form |-> "undefined", list |-> <<>>, hasStart |-> FALSE, start |-> 0,
   hasEnd |-> FALSE, end |-> 0]
PagesArray(list) == [PagesUndefined EXCEPT !.form = "array", !.list = list]
PagesRange(hasStart, start, hasEnd, end) ==
  [PagesUndefined EXCEPT !.form = "range", !.hasStart = hasStart, !.start = start,
                         !.hasEnd = hasEnd, !.end = end]

\* ------------------------------------------------------- lastOp, the record
NoOp ==
  [op |-> "none", target |-> 0, before |-> FALSE, status |-> "ok", error |-> NoError,
   code |-> "", value |-> 0, calls |-> <<>>, ignore |-> FALSE, threshold |-> 0,
   missing |-> 0, uac |-> {}, heapBefore |-> <<>>, password |-> "undefined",
   checked |-> FALSE, pages |-> PagesUndefined,
   image |-> [dataLen |-> 0, width |-> 0, height |-> 0],
   pageNumber |-> 0, native |-> 0, pipeline |-> NoPipeline, textPage |-> 0,
   missingCount |-> 0]

Op(name, target, before, r, w) ==
  [NoOp EXCEPT !.op = name, !.target = target, !.before = before,
               !.status = r.status, !.error = r.error, !.calls = w.calls,
               !.uac = w.uac]

OkResult == [status |-> "ok", error |-> NoError]

\* ----------------------------------------------- RenderOptions of the API
PagesOptions ==
  {PagesUndefined, PagesArray(<<1>>), PagesArray(<<MaxPages, 1>>),
   PagesArray(<<1, MaxPages + 1>>), PagesArray(<<0>>),
   PagesRange(TRUE, 2, FALSE, 0), PagesRange(FALSE, 0, TRUE, 0),
   PagesRange(TRUE, 0, FALSE, 0), PagesRange(TRUE, MaxPages + 1, FALSE, 0),
   PagesRange(TRUE, 1, TRUE, MaxPages + 1)}
DocScales == {<<1, 1>>}
DocRenderOptions ==
  [scale : DocScales, ignoreMissingGlyphs : BOOLEAN, pages : PagesOptions]

\* A caller of openPdf, getPageCount or renderPdfPages that is not in a call.
NoCall == [pc |-> "idle", fn |-> "", lib |-> 0, fonts |-> {}]

\* No render call or generator is in flight.
NoTask ==
  [kind |-> "none", pdf |-> 0, pc |-> "idle", pageNumber |-> 0, rest |-> <<>>,
   options |-> [scale |-> <<1, 1>>, ignoreMissingGlyphs |-> FALSE,
                pages |-> PagesUndefined],
   image |-> [dataLen |-> 0, width |-> 0, height |-> 0]]

\* ------------------------------------ actions on the library.ts classes
Init ==
  /\ heap = <<>>
  /\ badFree = {}
  /\ engine = [lib |-> "none", docs |-> <<>>]
  /\ library = NoLibrary
  /\ docs = <<>>
  /\ pageHandle = 0
  /\ libraryInstance = 0
  /\ modules = <<>>
  /\ callers = [c \in 1..MaxCallers |-> NoCall]
  /\ pdfs = <<>>
  /\ task = NoTask
  /\ lastOp = NoOp

HighUnchanged == UNCHANGED <<libraryInstance, modules, callers, pdfs, task>>

\* await PDFiumLibrary.init()
LibInit ==
  /\ ~library.exists
  /\ LET r == LibraryInit(World)
     IN /\ SetWorld(r.w)
        /\ library' = r.lib
        /\ lastOp' = Op("PDFiumLibrary.init", 0, FALSE, OkResult, r.w)
  /\ UNCHANGED <<docs, pageHandle>>
  /\ HighUnchanged

\* library.loadDocument(data, password)
LibLoadDocument ==
  /\ library.exists
  /\ \E password \in Passwords, eng \in EngineLoads :
       /\ eng.ok => Len(docs) < MaxDocs
       /\ LET r == loadDocument(World, password, eng)
          IN /\ SetWorld(r.w)
             /\ docs' = IF r.status = "ok" THEN Append(docs, r.doc) ELSE docs
             /\ lastOp' = [Op("loadDocument", 0, FALSE, r, r.w) EXCEPT
                             !.value = r.doc.docPtr, !.heapBefore = heap,
                             !.password = password, !.native = eng.code]
  /\ UNCHANGED <<library, pageHandle>>
  /\ HighUnchanged

\* document.getPageCount()
DocGetPageCount ==
  /\ \E d \in 1..Len(docs), stale \in Stale :
       LET r == getPageCount(World, docs[d], stale)
       IN /\ SetWorld(r.w)
          /\ lastOp' = [Op("getPageCount", d, docs[d].destroyed, r, r.w) EXCEPT
                          !.value = r.value]
  /\ UNCHANGED <<library, docs, pageHandle>>
  /\ HighUnchanged

\* document.getPage(pageIndex)
DocGetPage ==
  /\ \E d \in 1..Len(docs), pageIndex \in (-1)..MaxPages, stale \in Stale :
       LET r == getPage(World, docs[d], pageIndex, stale)
       IN /\ SetWorld(r.w)
          /\ pageHandle' = IF r.status = "ok" THEN r.value ELSE pageHandle
          /\ lastOp' = [Op("getPage", d, docs[d].destroyed, r, r.w) EXCEPT
                          !.value = r.value]
  /\ UNCHANGED <<library, docs>>
  /\ HighUnchanged

\* page.render(options)
PageRender ==
  /\ pageHandle # 0
  /\ \E options \in LifecycleOptions, page \in LifecyclePages :
       LET r == render(World, pageHandle, options, page)
       IN /\ SetWorld(r.w)
          /\ lastOp' = [Op("render", DocOfPage(pageHandle), FALSE, r, r.w) EXCEPT
                          !.value = r.image.dataLen, !.image = r.image,
                          !.ignore = options.ignoreMissingGlyphs,
                          !.threshold = options.missingGlyphThreshold,
                          !.missing = MissingOf(page), !.pipeline = r.pipeline,
                          !.textPage = TextLoadPage(pageHandle, page),
                          !.missingCount = r.missingCount]
  /\ UNCHANGED <<library, docs, pageHandle>>
  /\ HighUnchanged

\* document.destroy()
DocDestroy ==
  /\ \E d \in 1..Len(docs) :
       LET r == DocumentDestroy(World, docs[d])
       IN /\ SetWorld(r.w)
          /\ docs' = [docs EXCEPT ![d] = r.doc]
          /\ lastOp' = Op("PDFiumDocument.destroy", d, docs[d].destroyed, OkResult, r.w)
  /\ UNCHANGED <<library, pageHandle>>
  /\ HighUnchanged

\* library.destroy()
LibDestroy ==
  /\ library.exists
  /\ LET r == LibraryDestroy(World, library)
     IN /\ SetWorld(r.w)
        /\ library' = r.lib
        /\ lastOp' = Op("PDFiumLibrary.destroy", 0, ~library.initialized, OkResult, r.w)
  /\ UNCHANGED <<docs, pageHandle>>
  /\ HighUnchanged

Next ==
  \/ LibInit
  \/ LibLoadDocument
  \/ DocGetPageCount
  \/ DocGetPage
  \/ PageRender
  \/ DocDestroy
  \/ LibDestroy

Spec == Init /\ [][Next]_vars

\* ------------------------------------- PDFiumPage.render on its own
\* The state after PDFiumLibrary.init(), loadDocument of a one-page document
\* and getPage(0).
RenderStart ==
  LET w0 == [heap |-> <<>>, badFree |-> {}, engine |-> [lib |-> "none", docs |-> <<>>],
             uac |-> {}, calls |-> <<>>]
      l == LibraryInit(w0)
      d == loadDocument(l.w, "undefined", [ok |-> TRUE, code |-> FPDF_SUCCESS, pages |-> 1])
      g == getPage(d.w, d.doc, 0, FALSE)
  IN [w |-> g.w, lib |-> l.lib, doc |-> d.doc, pagePtr |-> g.value]

InitRender ==
  /\ heap = RenderStart.w.heap
  /\ badFree = RenderStart.w.badFree
  /\ engine = RenderStart.w.engine
  /\ library = RenderStart.lib
  /\ docs = <<RenderStart.doc>>
  /\ pageHandle = RenderStart.pagePtr
  /\ libraryInstance = 0
  /\ modules = <<>>
  /\ callers = [c \in 1..MaxCallers |-> NoCall]
  /\ pdfs = <<>>
  /\ task = NoTask
  /\ lastOp = NoOp

\* page.render(options), every option and every page
RenderAny ==
  /\ pageHandle # 0
  /\ \E options \in PageRenderOptions, page \in EnginePages :
       LET r == render(World, pageHandle, options, page)
       IN /\ SetWorld(r.w)
          /\ lastOp' = [Op("render", DocOfPage(pageHandle), FALSE, r, r.w) EXCEPT
                          !.value = r.image.dataLen, !.image = r.image,
                          !.ignore = options.ignoreMissingGlyphs,
                          !.threshold = options.missingGlyphThreshold,
                          !.missing = MissingOf(page), !.pipeline = r.pipeline,
                          !.textPage = TextLoadPage(pageHandle, page),
                          !.missingCount = r.missingCount]
  /\ UNCHANGED <<library, docs, pageHandle>>
  /\ HighUnchanged

\* page.render(options) when one of its steps throws
RenderThrows ==
  /\ pageHandle # 0
  /\ Cardinality({p \in DOMAIN heap : heap[p] = "framebuffer"}) < MaxTraps
  /\ \E options \in LifecycleOptions, page \in LifecyclePages, step \in RenderSteps :
       LET r == renderThrows(World, pageHandle, options, page, step)
       IN /\ SetWorld(r.w)
          /\ lastOp' = Op("render.throws", DocOfPage(pageHandle), FALSE, r, r.w)
  /\ UNCHANGED <<library, docs, pageHandle>>
  /\ HighUnchanged

\* page.render(options) when a step of its glyph check throws
RenderCheckThrows ==
  /\ pageHandle # 0
  /\ \E options \in LifecycleOptions, page \in TextPages, step \in TextSteps,
        at \in 0..(MaxChars - 1) :
       LET r == renderCheckThrows(World, pageHandle, options, page, step, at)
       IN /\ r.status = "throw"
          /\ SetWorld(r.w)
          /\ lastOp' = [Op("render.check.throws", DocOfPage(pageHandle), FALSE, r, r.w)
                           EXCEPT !.pipeline = r.pipeline,
                                  !.threshold = options.missingGlyphThreshold,
                                  !.missing = MissingOf(page),
                                  !.value = at,
                                  !.textPage = TextLoadPage(pageHandle, page),
                                  !.missingCount = r.missingCount]
  /\ UNCHANGED <<library, docs, pageHandle>>
  /\ HighUnchanged

NextRender ==
  \/ RenderAny
  \/ RenderThrows
  \/ RenderCheckThrows

SpecRender == InitRender /\ [][NextRender]_vars

\* ============================================ pdf-document.ts: the analyzer
\* A name is the sequence of its characters.  The document bytes are the
\* sequence of the "/Subtype /x" and "/BaseFont /x" tokens found in them.
UpperCase == {"A", "B", "C", "D", "E", "F", "G", "H", "I", "J", "K", "L", "M", "N", "O", "P", "Q", "R", "S", "T", "U", "V", "W", "X", "Y", "Z"}

PDF_BASE_14_FONTS ==
  {<<"C", "o", "u", "r", "i", "e", "r">>,
   <<"C", "o", "u", "r", "i", "e", "r", "-", "B", "o", "l", "d">>,
   <<"C", "o", "u", "r", "i", "e", "r", "-", "B", "o", "l", "d", "O", "b", "l", "i", "q", "u", "e">>,
   <<"C", "o", "u", "r", "i", "e", "r", "-", "O", "b", "l", "i", "q", "u", "e">>,
   <<"H", "e", "l", "v", "e", "t", "i", "c", "a">>,
   <<"H", "e", "l", "v", "e", "t", "i", "c", "a", "-", "B", "o", "l", "d">>,
   <<"H", "e", "l", "v", "e", "t", "i", "c", "a", "-", "B", "o", "l", "d", "O", "b", "l", "i", "q", "u", "e">>,
   <<"H", "e", "l", "v", "e", "t", "i", "c", "a", "-", "O", "b", "l", "i", "q", "u", "e">>,
   <<"T", "i", "m", "e", "s", "-", "R", "o", "m", "a", "n">>,
   <<"T", "i", "m", "e", "s", "-", "B", "o", "l", "d">>,
   <<"T", "i", "m", "e", "s", "-", "B", "o", "l", "d", "I", "t", "a", "l", "i", "c">>,
   <<"T", "i", "m", "e", "s", "-", "I", "t", "a", "l", "i", "c">>,
   <<"S", "y", "m", "b", "o", "l">>,
   <<"Z", "a", "p", "f", "D", "i", "n", "g", "b", "a", "t", "s">>}

EmbeddingSubtypes ==
  {<<"C", "I", "D", "F", "o", "n", "t", "T", "y", "p", "e", "0">>,
   <<"C", "I", "D", "F", "o", "n", "t", "T", "y", "p", "e", "2">>,
   <<"T", "r", "u", "e", "T", "y", "p", "e">>,
   <<"T", "y", "p", "e", "0">>,
   <<"O", "p", "e", "n", "T", "y", "p", "e">>}

IsPrefix(t, name) == Len(t) <= Len(name) /\ SubSeq(name, 1, Len(t)) = t

\* A test that finds no subset prefix.
hasSubsetPrefixNever(fontName) == FALSE

\* /^[A-Z]{6}\+/
hasSubsetPrefix(fontName) ==
  /\ Len(fontName) >= 7
  /\ \A i \in 1..6 : fontName[i] \in UpperCase
  /\ fontName[7] = "+"

isBase14Font(fontName) ==
  LET cleanName == IF hasSubsetPrefix(fontName)
                     THEN SubSeq(fontName, 8, Len(fontName))
                     ELSE fontName
  IN cleanName \in PDF_BASE_14_FONTS

RECURSIVE Dedup(_, _)
Dedup(names, seen) ==
  IF names = <<>>
    THEN <<>>
    ELSE IF Head(names) \in seen
           THEN Dedup(Tail(names), seen)
           ELSE <<Head(names)>> \o Dedup(Tail(names), seen \cup {Head(names)})

\* detectNonEmbeddedFonts without new Set(...).
detectNonEmbeddedFontsRepeated(pdfData) ==
  LET IsEmbeddingSubtype(tok) ==
        tok.key = "Subtype" /\ \E t \in EmbeddingSubtypes : IsPrefix(t, tok.name)
      hasNonStandardFonts == \E i \in 1..Len(pdfData) : IsEmbeddingSubtype(pdfData[i])
      IsBaseFont(tok) == tok.key = "BaseFont" /\ tok.name # <<>>
      baseFontTokens == SelectSeq(pdfData, IsBaseFont)
      allBaseFonts == [i \in 1..Len(baseFontTokens) |-> baseFontTokens[i].name]
      IsCandidate(name) == ~(isBase14Font(name) \/ hasSubsetPrefix(name))
  IN IF ~hasNonStandardFonts
       THEN <<>>
       ELSE SelectSeq(allBaseFonts, IsCandidate)

detectNonEmbeddedFonts(pdfData) ==
  LET IsEmbeddingSubtype(tok) ==
        tok.key = "Subtype" /\ \E t \in EmbeddingSubtypes : IsPrefix(t, tok.name)
      hasNonStandardFonts == \E i \in 1..Len(pdfData) : IsEmbeddingSubtype(pdfData[i])
      IsBaseFont(tok) == tok.key = "BaseFont" /\ tok.name # <<>>
      baseFontTokens == SelectSeq(pdfData, IsBaseFont)
      allBaseFonts == [i \in 1..Len(baseFontTokens) |-> baseFontTokens[i].name]
      IsCandidate(name) == ~(isBase14Font(name) \/ hasSubsetPrefix(name))
  IN IF ~hasNonStandardFonts
       THEN <<>>
       ELSE Dedup(SelectSeq(allBaseFonts, IsCandidate), {})

Tok(key, name) == [key |-> key, name |-> name]

\* Sample documents: standard fonts only; a TrueType font "Arial" that is not
\* embedded; the same font under a subset prefix.
PdfStandard == <<Tok("Subtype", <<"T", "y", "p", "e", "1">>), Tok("BaseFont", <<"H", "e", "l", "v", "e", "t", "i", "c", "a">>)>>
PdfArial == <<Tok("Subtype", <<"T", "r", "u", "e", "T", "y", "p", "e">>), Tok("BaseFont", <<"A", "r", "i", "a", "l">>)>>
PdfSubset == <<Tok("Subtype", <<"T", "r", "u", "e", "T", "y", "p", "e">>), Tok("BaseFont", <<"A", "B", "C", "D", "E", "F", "+", "A", "r", "i", "a", "l">>)>>
PdfSamples == {PdfStandard, PdfArial, PdfSubset}

\* ------------------------------------------- the analyzer on its own
Type1 == <<"T", "y", "p", "e", "1">>
TrueType == <<"T", "r", "u", "e", "T", "y", "p", "e">>
CIDFontType2 == <<"C", "I", "D", "F", "o", "n", "t", "T", "y", "p", "e", "2">>
Helvetica == <<"H", "e", "l", "v", "e", "t", "i", "c", "a">>
Arial == <<"A", "r", "i", "a", "l">>
SubsetArial == <<"A", "B", "C", "D", "E", "F", "+", "A", "r", "i", "a", "l">>
SubsetHelvetica == <<"A", "B", "C", "D", "E", "F", "+", "H", "e", "l", "v", "e", "t", "i", "c", "a">>
ShortPrefixArial == <<"A", "B", "C", "D", "E", "+", "A", "r", "i", "a", "l">>

SubtypeNames == {Type1, TrueType, CIDFontType2}
FontNames == {Helvetica, Arial, SubsetArial, SubsetHelvetica, ShortPrefixArial}
Toks == {Tok("Subtype", n) : n \in SubtypeNames} \cup {Tok("BaseFont", n) : n \in FontNames}
PdfDatas == UNION {[1..n -> Toks] : n \in 0..MaxToks}

\* lastOp here: the bytes given to the analyzer and the list it returned.
FontsInput ==
  /\ lastOp.op = "none"
  /\ \E pdfData \in PdfDatas :
       lastOp' = [op |-> "input", pdfData |-> pdfData, fonts |-> <<>>]
  /\ UNCHANGED <<heap, badFree, engine, library, docs, pageHandle>>
  /\ HighUnchanged

\* this.nonEmbeddedFonts = detectNonEmbeddedFonts(this.pdfData)
Detect ==
  /\ lastOp.op = "input"
  /\ lastOp' = [op |-> "detectNonEmbeddedFonts", pdfData |-> lastOp.pdfData,
                fonts |-> detectNonEmbeddedFonts(lastOp.pdfData)]
  /\ UNCHANGED <<heap, badFree, engine, library, docs, pageHandle>>
  /\ HighUnchanged

NextFonts ==
  \/ FontsInput
  \/ Detect

SpecFonts == Init /\ [][NextFonts]_vars

\* ======================================= pdf-document.ts: wrapPdfiumError
\* message.toLowerCase().includes(needle), for the messages of createError.
MessageIncludes(message, needle) ==
  <<message, needle>> \in
    {<<"File not in PDF format or corrupted", "format">>,
     <<"Password required or incorrect password", "password">>,
     <<"Password required or incorrect password", "incorrect">>}

wrapPdfiumError(error) ==
  IF \/ MessageIncludes(error.message, "invalid")
     \/ MessageIncludes(error.message, "not a pdf")
     \/ MessageIncludes(error.message, "format")
    THEN "INVALID_PDF"
    ELSE IF MessageIncludes(error.message, "password")
           THEN IF \/ MessageIncludes(error.message, "incorrect")
                   \/ MessageIncludes(error.message, "wrong")
                  THEN "INVALID_PASSWORD"
                  ELSE "PASSWORD_REQUIRED"
           ELSE "UNKNOWN"

\* The message of the PdfError that wrapPdfiumError builds: a fixed text, or
\* the message of the error it wraps.
PdfErrorMessage(error) ==
  CASE wrapPdfiumError(error) = "INVALID_PDF" -> MkError("Invalid PDF file", 0)
    [] wrapPdfiumError(error) = "INVALID_PASSWORD" -> MkError("Incorrect password", 0)
    [] wrapPdfiumError(error) = "PASSWORD_REQUIRED" ->
         MkError("Password required to open this PDF", 0)
    [] OTHER -> error

\* ======================================== pdf-document.ts: PdfDocumentImpl
\* A PdfDocumentImpl: `document` is the position of its PDFiumDocument in docs.
NewPdf(document, pdfData) ==
  [document |-> document, pdfData |-> pdfData, closed |-> FALSE,
   nonEmbeddedFontsChecked |-> FALSE, nonEmbeddedFonts |-> <<>>]

NoImage == [dataLen |-> 0, width |-> 0, height |-> 0]

\* The result of a PdfDocumentImpl method: the PdfError code when it throws,
\* the error it wraps, and whether the page renderer ran.
HR(w, pdf, status, code, error, value, image, rendered) ==
  [w |-> w, pdf |-> pdf, status |-> status, code |-> code, error |-> error,
   value |-> value, image |-> image, rendered |-> rendered]

\* ensureOpen that never throws.
ensureOpenNever(pdf) == FALSE

\* ensureOpen throws DOCUMENT_CLOSED exactly when this holds.
ensureOpen(pdf) == pdf.closed

\* get pageCount
pageCount(w, pdf, stale) ==
  IF ensureOpen(pdf)
    THEN HR(w, pdf, "throw", "DOCUMENT_CLOSED", NoError, 0, NoImage, FALSE)
    ELSE LET r == getPageCount(w, docs[pdf.document], stale)
         IN HR(r.w, pdf, "ok", "", NoError, r.value, NoImage, FALSE)

\* checkForNonEmbeddedFonts that throws only when it runs the detection.
checkForNonEmbeddedFontsOnce(pdf) ==
  LET fonts == IF ~pdf.nonEmbeddedFontsChecked
                 THEN detectNonEmbeddedFonts(pdf.pdfData)
                 ELSE pdf.nonEmbeddedFonts
  IN [pdf |-> [pdf EXCEPT !.nonEmbeddedFonts = fonts, !.nonEmbeddedFontsChecked = TRUE],
      throws |-> ~pdf.nonEmbeddedFontsChecked /\ Len(fonts) > 0]

checkForNonEmbeddedFonts(pdf) ==
  LET fonts == IF ~pdf.nonEmbeddedFontsChecked
                 THEN detectNonEmbeddedFonts(pdf.pdfData)
                 ELSE pdf.nonEmbeddedFonts
  IN [pdf |-> [pdf EXCEPT !.nonEmbeddedFonts = fonts, !.nonEmbeddedFontsChecked = TRUE],
      throws |-> Len(fonts) > 0]

\* The options renderPageInternal hands to page.render: { render, scale }, so
\* render applies its defaults to the two glyph options.
PageOptions(options) ==
  [scale |-> options.scale, ignoreMissingGlyphs |-> FALSE, missingGlyphThreshold |-> 0]

\* renderPageInternal up to its await of the encoder.
renderPageInternalBegin(w, pdf, pageNumber, options, page, stale) ==
  LET c == checkForNonEmbeddedFonts(pdf)
      g == getPage(w, docs[pdf.document], pageNumber - 1, stale)
      r == render(g.w, g.value, PageOptions(options), page)
  IN IF c.throws
       THEN HR(w, c.pdf, "throw", "MISSING_FONT", NoError, 0, NoImage, FALSE)
       ELSE IF g.status = "throw"
              THEN HR(g.w, c.pdf, "throw", "RENDER_FAILED", g.error, 0, NoImage, FALSE)
              ELSE IF r.status = "throw"
                     THEN HR(r.w, c.pdf, "throw", "RENDER_FAILED", r.error, 0, NoImage, TRUE)
                     ELSE HR(r.w, c.pdf, "pending", "", NoError, 0, r.image, TRUE)

\* renderPageInternal from the encoder's answer on: totalPages reads pageCount
\* inside the try block.
renderPageInternalEnd(w, pdf, image, encoded, stale) ==
  LET n == pageCount(w, pdf, stale)
  IN IF ~encoded
       THEN HR(w, pdf, "throw", "RENDER_FAILED", MkError("encoder failed", 0), 0,
               NoImage, FALSE)
       ELSE IF n.status = "throw"
              THEN HR(n.w, pdf, "throw", "RENDER_FAILED",
                      MkError("Document has been closed", 0), 0, NoImage, FALSE)
              ELSE HR(n.w, pdf, "ok", "", NoError, n.value, image, FALSE)

\* renderPage without the check of its page number.
renderPageUnvalidated(w, pdf, pageNumber, options, page, stale) ==
  IF ensureOpen(pdf)
    THEN HR(w, pdf, "throw", "DOCUMENT_CLOSED", NoError, 0, NoImage, FALSE)
    ELSE renderPageInternalBegin(w, pdf, pageNumber, options, page, stale)

\* renderPage up to the await inside renderPageInternal.
renderPage(w, pdf, pageNumber, options, page, stale) ==
  IF ensureOpen(pdf)
    THEN HR(w, pdf, "throw", "DOCUMENT_CLOSED", NoError, 0, NoImage, FALSE)
    ELSE
      LET n == pageCount(w, pdf, stale)
          w1 == IF pageNumber < 1 THEN w ELSE n.w
      IN IF pageNumber < 1 \/ pageNumber > n.value
           THEN HR(pageCount(w1, pdf, stale).w, pdf, "throw", "INVALID_PAGE_NUMBER",
                   NoError, 0, NoImage, FALSE)
           ELSE renderPageInternalBegin(w1, pdf, pageNumber, options, page, stale)

\* The validation loop of resolvePageNumbers over an array, from pages[i] on.
RECURSIVE ValidateArray(_, _, _, _)
ValidateArray(w, pdf, pages, i) ==
  IF i > Len(pages)
    THEN HR(w, pdf, "ok", "", NoError, pages, NoImage, FALSE)
    ELSE
      LET n == pageCount(w, pdf, FALSE)
          w1 == IF pages[i] < 1 THEN w ELSE n.w
      IN IF pages[i] < 1 \/ pages[i] > n.value
           THEN HR(pageCount(w1, pdf, FALSE).w, pdf, "throw", "INVALID_PAGE_NUMBER",
                   NoError, <<>>, NoImage, FALSE)
           ELSE ValidateArray(w1, pdf, pages, i + 1)

\* The numbers from b down to a.
FromToDescending(a, b) == [i \in 1..(b - a + 1) |-> b - i + 1]

\* Array.from({ length: b - a + 1 }, (_, i) => a + i)
FromTo(a, b) == [i \in 1..(b - a + 1) |-> a + i - 1]

\* pages = [form, list, hasStart, start, hasEnd, end]; form is "undefined",
\* "array" or "range".  The value of the result is the list of page numbers.
resolvePageNumbers(w, pdf, pages) ==
  LET n == pageCount(w, pdf, FALSE)
      start == IF pages.hasStart THEN pages.start ELSE 1
      end == IF pages.hasEnd THEN pages.end ELSE n.value
      w1 == IF pages.hasEnd THEN w ELSE n.w
      w2 == IF start < 1 THEN w1 ELSE pageCount(w1, pdf, FALSE).w
      w3 == IF end < start THEN w2 ELSE pageCount(w2, pdf, FALSE).w
  IN CASE pages.form = "undefined" ->
            HR(n.w, pdf, "ok", "", NoError, FromTo(1, n.value), NoImage, FALSE)
       [] pages.form = "array" -> ValidateArray(w, pdf, pages.list, 1)
       [] OTHER ->
            IF start < 1 \/ start > n.value
              THEN HR(pageCount(w2, pdf, FALSE).w, pdf, "throw", "INVALID_PAGE_NUMBER",
                      NoError, <<>>, NoImage, FALSE)
              ELSE IF end < start \/ end > n.value
                     THEN HR(pageCount(w3, pdf, FALSE).w, pdf, "throw",
                             "INVALID_PAGE_NUMBER", NoError, <<>>, NoImage, FALSE)
                     ELSE HR(w3, pdf, "ok", "", NoError, FromTo(start, end), NoImage, FALSE)

\* The loop of renderPages at the head of pageNumbers: the generator returns
\* when none is left, else it enters renderPageInternal.
renderPagesLoop(w, pdf, pageNumbers, options, page, stale) ==
  IF pageNumbers = <<>>
    THEN HR(w, pdf, "done", "", NoError, 0, NoImage, FALSE)
    ELSE renderPageInternalBegin(w, pdf, Head(pageNumbers), options, page, stale)

\* renderPages from the first next() to the first await.
renderPagesStart(w, pdf, options, page) ==
  LET nums == resolvePageNumbers(w, pdf, options.pages)
  IN IF ensureOpen(pdf)
       THEN HR(w, pdf, "throw", "DOCUMENT_CLOSED", NoError, <<>>, NoImage, FALSE)
       ELSE IF nums.status = "throw"
              THEN nums
              ELSE [renderPagesLoop(nums.w, pdf, nums.value, options, page, FALSE)
                      EXCEPT !.value = nums.value]

\* close()
PdfCloseOp(w, pdf) ==
  IF pdf.closed
    THEN [w |-> w, pdf |-> pdf, doc |-> docs[pdf.document]]
    ELSE LET r == DocumentDestroy(w, docs[pdf.document])
         IN [w |-> r.w, pdf |-> [pdf EXCEPT !.closed = TRUE], doc |-> r.doc]

\* getLibrary()
getLibrary(w) ==
  IF libraryInstance = 0 THEN LibraryInit(w) ELSE [w |-> w, lib |-> library]

\* ------------------------------------------- actions on PdfDocumentImpl
LowUnchanged ==
  UNCHANGED <<library, docs, pageHandle, libraryInstance, modules, callers>>

HOp(name, p, r, options, page) ==
  [NoOp EXCEPT !.op = name, !.target = p, !.before = pdfs[p].closed,
               !.status = r.status, !.code = r.code, !.error = r.error,
               !.calls = r.w.calls, !.uac = r.w.uac,
               !.ignore = options.ignoreMissingGlyphs,
               !.checked = pdfs[p].nonEmbeddedFontsChecked,
               !.pages = options.pages,
               !.missing = IF r.rendered THEN MissingOf(page) ELSE 0]

\* The files opened through the API: one whose fonts are all standard and one
\* that references Arial without embedding it; each has MaxPages pages.
DocSamples == {PdfStandard, PdfArial}
DocLoads == {eng \in EngineLoads : eng.ok => eng.pages = MaxPages}

StaleFor(p) == IF pdfs[p].closed THEN Stale ELSE {FALSE}

\* await openPdf(data, { password })
PdfOpen ==
  /\ Len(pdfs) < MaxDocs
  /\ \E password \in {"undefined", "secret"}, eng \in DocLoads :
     \E pdfData \in IF eng.ok THEN DocSamples ELSE {PdfStandard} :
          LET l == getLibrary(World)
              r == loadDocument(l.w, password, eng)
          IN /\ SetWorld(r.w)
             /\ library' = l.lib
             /\ libraryInstance' = 1
             /\ docs' = IF r.status = "ok" THEN Append(docs, r.doc) ELSE docs
             /\ pdfs' = IF r.status = "ok"
                          THEN Append(pdfs, NewPdf(Len(docs) + 1, pdfData))
                          ELSE pdfs
             /\ lastOp' = [Op("open", 0, FALSE, r, r.w) EXCEPT
                             !.code = IF r.status = "throw"
                                        THEN wrapPdfiumError(r.error) ELSE "",
                             !.value = r.doc.docPtr, !.heapBefore = heap,
                             !.password = password, !.native = eng.code]
  /\ UNCHANGED <<pageHandle, task, modules, callers>>

\* pdf.pageCount
PdfPageCount ==
  /\ \E p \in 1..Len(pdfs) :
       LET r == pageCount(World, pdfs[p], FALSE)
       IN /\ SetWorld(r.w)
          /\ lastOp' = [HOp("pageCount", p, r, NoTask.options, 0) EXCEPT
                          !.value = r.value]
  /\ UNCHANGED <<pdfs, task>>
  /\ LowUnchanged

\* pdf.renderPage(pageNumber, options), up to its first await
PdfRenderPage ==
  /\ task.kind = "none"
  /\ \E p \in 1..Len(pdfs), pageNumber \in 0..(MaxPages + 1),
        options \in {o \in DocRenderOptions : o.pages = PagesUndefined},
        page \in LifecyclePages :
       LET r == renderPage(World, pdfs[p], pageNumber, options, page, FALSE)
       IN /\ SetWorld(r.w)
          /\ pdfs' = [pdfs EXCEPT ![p] = r.pdf]
          /\ task' = IF r.status = "pending"
                       THEN [NoTask EXCEPT !.kind = "renderPage", !.pdf = p,
                                           !.pc = "encoding", !.pageNumber = pageNumber,
                                           !.options = options, !.image = r.image]
                       ELSE NoTask
          /\ lastOp' = [HOp("renderPage", p, r, options, page) EXCEPT
                          !.pageNumber = pageNumber]
  /\ LowUnchanged

\* pdf.renderPages(options): the generator object; none of its code has run
PdfRenderPages ==
  /\ task.kind = "none"
  /\ \E p \in 1..Len(pdfs), options \in DocRenderOptions :
       /\ task' = [NoTask EXCEPT !.kind = "renderPages", !.pdf = p, !.pc = "created",
                                 !.options = options]
       /\ lastOp' = [NoOp EXCEPT !.op = "renderPages", !.target = p,
                                 !.before = pdfs[p].closed,
                                 !.ignore = options.ignoreMissingGlyphs]
  /\ UNCHANGED <<heap, badFree, engine, pdfs>>
  /\ LowUnchanged

\* What a step of the generator leaves in flight.
GenTask(r, pageNumbers) ==
  IF r.status = "pending"
    THEN [task EXCEPT !.pc = "encoding", !.pageNumber = Head(pageNumbers),
                      !.rest = Tail(pageNumbers), !.image = r.image]
    ELSE NoTask

\* the consumer calls next() on the generator
GenNext ==
  /\ task.kind = "renderPages"
  /\ task.pc \in {"created", "suspended"}
  /\ \E page \in LifecyclePages, stale \in StaleFor(task.pdf) :
       LET p == task.pdf
           r == IF task.pc = "created"
                  THEN renderPagesStart(World, pdfs[p], task.options, page)
                  ELSE renderPagesLoop(World, pdfs[p], task.rest, task.options, page,
                                       stale)
           pageNumbers == IF task.pc = "created" THEN r.value ELSE task.rest
       IN /\ SetWorld(r.w)
          /\ pdfs' = [pdfs EXCEPT ![p] = r.pdf]
          /\ task' = GenTask(r, pageNumbers)
          /\ lastOp' = [HOp(IF task.pc = "created" THEN "renderPages.start"
                                                   ELSE "renderPages.resume",
                            p, r, task.options, page) EXCEPT
                          !.pageNumber = IF pageNumbers # <<>>
                                           THEN Head(pageNumbers) ELSE 0]
  /\ LowUnchanged

\* the encoder answers: the await in renderPageInternal resumes
Settle ==
  /\ task.pc = "encoding"
  /\ \E encoded \in BOOLEAN :
       LET p == task.pdf
           r == renderPageInternalEnd(World, pdfs[p], task.image, encoded, FALSE)
       IN /\ SetWorld(r.w)
          /\ task' = IF task.kind = "renderPages" /\ r.status = "ok"
                       THEN [task EXCEPT !.pc = "suspended"]
                       ELSE NoTask
          /\ lastOp' = [HOp(IF task.kind = "renderPages" THEN "renderPages.yield"
                                                          ELSE "renderPage.result",
                            p, r, task.options, 0) EXCEPT
                          !.value = r.value, !.pageNumber = task.pageNumber]
  /\ UNCHANGED pdfs
  /\ LowUnchanged

\* the consumer abandons the generator: return()
GenReturn ==
  /\ task.kind = "renderPages"
  /\ task.pc \in {"created", "suspended"}
  /\ task' = NoTask
  /\ lastOp' = [NoOp EXCEPT !.op = "renderPages.return", !.target = task.pdf,
                            !.before = pdfs[task.pdf].closed]
  /\ UNCHANGED <<heap, badFree, engine, pdfs>>
  /\ LowUnchanged

\* await pdf.close()
PdfClose ==
  /\ \E p \in 1..Len(pdfs) :
       LET r == PdfCloseOp(World, pdfs[p])
       IN /\ SetWorld(r.w)
          /\ pdfs' = [pdfs EXCEPT ![p] = r.pdf]
          /\ docs' = [docs EXCEPT ![pdfs[p].document] = r.doc]
          /\ lastOp' = [NoOp EXCEPT !.op = "close", !.target = p,
                                    !.before = pdfs[p].closed, !.calls = r.w.calls,
                                    !.uac = r.w.uac]
  /\ UNCHANGED <<library, pageHandle, libraryInstance, modules, callers, task>>

NextDoc ==
  \/ PdfOpen
  \/ PdfPageCount
  \/ PdfRenderPage
  \/ PdfRenderPages
  \/ GenNext
  \/ Settle
  \/ GenReturn
  \/ PdfClose

SpecDoc == Init /\ [][NextDoc]_vars

\* ======================== the default library: getLibrary and its callers
\* The memory and engine of a WASM module that has just been instantiated.
NewWorld ==
  [heap |-> <<>>, badFree |-> {}, engine |-> [lib |-> "none", docs |-> <<>>],
   uac |-> {}, calls |-> <<>>]

\* PDFiumLibrary.init(): the loader instantiates a module, and a new
\* PDFiumLibrary on it runs initLibraryConfig.  `by` names who asked for it.
PDFiumLibraryInit(by) ==
  LET r == LibraryInit(NewWorld)
  IN [lib |-> r.lib, heap |-> r.w.heap, engine |-> r.w.engine, fonts |-> {},
      by |-> by, calls |-> r.w.calls]

\* registerFonts(module, fonts): the files are written to the module's FS.
registerFonts(module, fonts) == [module EXCEPT !.fonts = @ \cup fonts]

Fonts == {"NotoSansJP"}
TopLevel == {"openPdf", "getPageCount", "renderPdfPages"}

\* What library.registerFonts has put in the modules of the script so far.
Registered == UNION {modules[k].fonts : k \in {j \in 1..Len(modules) : modules[j].by = "user"}}

OpenUnchanged == UNCHANGED <<heap, badFree, engine, docs, pageHandle, pdfs, task>>

\* openPdf, getPageCount or renderPdfPages enters PdfDocumentImpl.open, which
\* enters getLibrary: with libraryInstance null it awaits PDFiumLibrary.init(),
\* else it has the cached instance.
OpenBegin ==
  /\ \E c \in 1..MaxCallers, fn \in TopLevel :
       /\ callers[c].pc = "idle"
       /\ callers' = [callers EXCEPT ![c] =
                        [pc |-> IF libraryInstance = 0 THEN "init" ELSE "opened",
                         fn |-> fn, lib |-> libraryInstance, fonts |-> Registered]]
       /\ lastOp' = [NoOp EXCEPT !.op = "getLibrary", !.target = c]
  /\ UNCHANGED <<library, libraryInstance, modules>>
  /\ OpenUnchanged

\* the await in getLibrary resumes: libraryInstance = <the new library>, which
\* getLibrary returns to open.
InitDone ==
  /\ \E c \in 1..MaxCallers :
       /\ callers[c].pc = "init"
       /\ LET m == PDFiumLibraryInit("getLibrary")
          IN /\ modules' = Append(modules, m)
             /\ libraryInstance' = Len(modules) + 1
             /\ callers' = [callers EXCEPT ![c].pc = "opened",
                                           ![c].lib = Len(modules) + 1]
             /\ lastOp' = [NoOp EXCEPT !.op = "getLibrary.init", !.target = c,
                                       !.calls = m.calls, !.value = Len(modules) + 1]
  /\ UNCHANGED library
  /\ OpenUnchanged

\* the top-level call is over
OpenEnd ==
  /\ \E c \in 1..MaxCallers :
       /\ callers[c].pc = "opened"
       /\ callers' = [callers EXCEPT ![c] = NoCall]
       /\ lastOp' = [NoOp EXCEPT !.op = callers[c].fn, !.target = c,
                                 !.value = callers[c].lib]
  /\ UNCHANGED <<library, libraryInstance, modules>>
  /\ OpenUnchanged

\* the script: library = await PDFiumLibrary.init()
UserInit ==
  /\ ~library.exists
  /\ LET m == PDFiumLibraryInit("user")
     IN /\ modules' = Append(modules, m)
        /\ library' = m.lib
        /\ lastOp' = [NoOp EXCEPT !.op = "PDFiumLibrary.init", !.calls = m.calls,
                                  !.value = Len(modules) + 1]
  /\ UNCHANGED <<libraryInstance, callers>>
  /\ OpenUnchanged

\* the script: library.registerFonts(fonts)
UserRegisterFonts ==
  /\ library.exists
  /\ \E k \in 1..Len(modules), fonts \in (SUBSET Fonts) \ {{}} :
       /\ modules[k].by = "user"
       /\ modules' = [modules EXCEPT ![k] = registerFonts(@, fonts)]
       /\ lastOp' = [NoOp EXCEPT !.op = "registerFonts", !.value = k]
  /\ UNCHANGED <<library, libraryInstance, callers>>
  /\ OpenUnchanged

NextOpen ==
  \/ OpenBegin
  \/ InitDone
  \/ OpenEnd
  \/ UserInit
  \/ UserRegisterFonts

SpecOpen == Init /\ [][NextOpen]_vars

\* ================================== pdf-document.ts: convertBgraToRgba
\* A Uint8Array is the sequence of its bytes, element i at position i + 1.
\* Reading past the end gives undefined, which a Uint8Array stores as 0;
\* writing past the end does nothing.
ReadByte(a, i) == IF i < Len(a) THEN a[i + 1] ELSE 0
WriteByte(a, i, v) == IF i < Len(a) THEN [a EXCEPT ![i + 1] = v] ELSE a

\* A channel map that rotates the four bytes.
SourceOffsetRotate(k) == (k + 1) % 4

\* A channel map that swaps nothing.
SourceOffsetIdentity(k) == k

\* rgba[i + k] = bgra[i + SourceOffset(k)]: R <- B, G <- G, B <- R, A <- A
SourceOffset(k) == CASE k = 0 -> 2 [] k = 1 -> 1 [] k = 2 -> 0 [] OTHER -> 3

\* One turn of the loop: the four assignments, in the order of the code.
ConvertPixel(bgra, rgba, i) ==
  LET r0 == WriteByte(rgba, i, ReadByte(bgra, i + SourceOffset(0)))
      r1 == WriteByte(r0, i + 1, ReadByte(bgra, i + SourceOffset(1)))
      r2 == WriteByte(r1, i + 2, ReadByte(bgra, i + SourceOffset(2)))
  IN WriteByte(r2, i + 3, ReadByte(bgra, i + SourceOffset(3)))

\* for (let i = 0; i < bgra.length; i += 4)
RECURSIVE ConvertLoop(_, _, _)
ConvertLoop(bgra, rgba, i) ==
  IF i < Len(bgra)
    THEN ConvertLoop(bgra, ConvertPixel(bgra, rgba, i), i + 4)
    ELSE [bgra |-> bgra, rgba |-> rgba]

\* The result is the new buffer; bgra is the argument as the call leaves it.
convertBgraToRgba(bgra) == ConvertLoop(bgra, [i \in 1..Len(bgra) |-> 0], 0)

Bytes == {0, 255}
ByteSeqs == UNION {[1..n -> Bytes] : n \in 0..MaxBytes}

\* lastOp here: the buffer first given, the argument and the result of the
\* last call, and the number of calls made, each on the result of the one before.
ConvertInput ==
  /\ lastOp.op = "none"
  /\ \E b \in ByteSeqs :
       lastOp' = [op |-> "input", n |-> 0, original |-> b, input |-> b,
                  after |-> b, output |-> b]
  /\ UNCHANGED <<heap, badFree, engine, library, docs, pageHandle>>
  /\ HighUnchanged

\* rgba = convertBgraToRgba(data), then once more on the result
Convert ==
  /\ lastOp.op \in {"input", "convertBgraToRgba"}
  /\ lastOp.n < 2
  /\ LET r == convertBgraToRgba(lastOp.output)
     IN lastOp' = [op |-> "convertBgraToRgba", n |-> lastOp.n + 1,
                   original |-> lastOp.original, input |-> lastOp.output,
                   after |-> r.bgra, output |-> r.rgba]
  /\ UNCHANGED <<heap, badFree, engine, library, docs, pageHandle>>
  /\ HighUnchanged

NextBytes ==
  \/ ConvertInput
  \/ Convert

SpecBytes == Init /\ [][NextBytes]_vars

\* ============================== fonts/noto-cjk: extractFontFromZip
\* A Uint8Array is the sequence of its bytes; a name is the sequence of its
\* character codes.
ZIP_LOCAL_FILE_HEADER_SIGNATURE == 67324752   \* 0x04034b50

\* 'NotoSansCJK-Regular.ttc'
targetFileName ==
  <<78, 111, 116, 111, 83, 97, 110, 115, 67, 74, 75, 45, 82, 101, 103, 117, 108, 97,
    114, 46, 116, 116, 99>>

\* dataView.getUint16(offset, true) and dataView.getUint32(offset, true)
getUint16(zipData, offset) == zipData[offset + 1] + 256 * zipData[offset + 2]
getUint32(zipData, offset) ==
  zipData[offset + 1] + 256 * zipData[offset + 2] + 65536 * zipData[offset + 3]
    + 16777216 * zipData[offset + 4]

\* zipData.subarray(begin, end) and zipData.slice(begin, end): end is clamped.
subarray(zipData, begin, end) ==
  SubSeq(zipData, begin + 1, IF end < Len(zipData) THEN end ELSE Len(zipData))

\* fileName.endsWith(suffix)
endsWith(fileName, suffix) ==
  /\ Len(suffix) <= Len(fileName)
  /\ SubSeq(fileName, Len(fileName) - Len(suffix) + 1, Len(fileName)) = suffix

\* The result of an extractor: `visited` lists the offsets whose signature was
\* read; `inflate` says that data went through decompressDeflate.
ZipResult(status, error, data, inflate, visited) ==
  [status |-> status, error |-> error, data |-> data, inflate |-> inflate,
   visited |-> visited]

\* ReadEntry that takes the data to start right after the file name.
ReadEntryNoExtra(zipData, offset, visited) ==
  LET compressionMethod == getUint16(zipData, offset + 8)
      compressedSize == getUint32(zipData, offset + 18)
      fileNameLength == getUint16(zipData, offset + 26)
      fileNameStart == offset + 30
      fileName == subarray(zipData, fileNameStart, fileNameStart + fileNameLength)
      dataStart == fileNameStart + fileNameLength
      bytes == subarray(zipData, dataStart, dataStart + compressedSize)
  IN IF endsWith(fileName, targetFileName)
       THEN [found |-> TRUE, next |-> 0,
             result |->
               CASE compressionMethod = 0 -> ZipResult("ok", "", bytes, FALSE, visited)
                 [] compressionMethod = 8 -> ZipResult("ok", "", bytes, TRUE, visited)
                 [] OTHER -> ZipResult("throw", "Unsupported compression method: ",
                                       <<>>, FALSE, visited)]
       ELSE [found |-> FALSE, next |-> dataStart + compressedSize,
             result |-> ZipResult("ok", "", <<>>, FALSE, visited)]

\* ReadEntry that passes over a target entry of an unsupported method.
ReadEntrySkipsUnsupported(zipData, offset, visited) ==
  LET compressionMethod == getUint16(zipData, offset + 8)
      compressedSize == getUint32(zipData, offset + 18)
      fileNameLength == getUint16(zipData, offset + 26)
      extraFieldLength == getUint16(zipData, offset + 28)
      fileNameStart == offset + 30
      fileName == subarray(zipData, fileNameStart, fileNameStart + fileNameLength)
      dataStart == fileNameStart + fileNameLength + extraFieldLength
      bytes == subarray(zipData, dataStart, dataStart + compressedSize)
  IN IF endsWith(fileName, targetFileName) /\ compressionMethod \in {0, 8}
       THEN [found |-> TRUE, next |-> 0,
             result |-> ZipResult("ok", "", bytes, compressionMethod = 8, visited)]
       ELSE [found |-> FALSE, next |-> dataStart + compressedSize,
             result |-> ZipResult("ok", "", <<>>, FALSE, visited)]

\* What the loop does with the header at `offset` once its signature matched.
\* The result has found = FALSE and the next offset when the name does not match.
ReadEntry(zipData, offset, visited) ==
  LET compressionMethod == getUint16(zipData, offset + 8)
      compressedSize == getUint32(zipData, offset + 18)
      fileNameLength == getUint16(zipData, offset + 26)
      extraFieldLength == getUint16(zipData, offset + 28)
      fileNameStart == offset + 30
      fileName == subarray(zipData, fileNameStart, fileNameStart + fileNameLength)
      dataStart == fileNameStart + fileNameLength + extraFieldLength
      bytes == subarray(zipData, dataStart, dataStart + compressedSize)
  IN IF endsWith(fileName, targetFileName)
       THEN [found |-> TRUE, next |-> 0,
             result |->
               CASE compressionMethod = 0 -> ZipResult("ok", "", bytes, FALSE, visited)
                 [] compressionMethod = 8 -> ZipResult("ok", "", bytes, TRUE, visited)
                 [] OTHER -> ZipResult("throw", "Unsupported compression method: ",
                                       <<>>, FALSE, visited)]
       ELSE [found |-> FALSE, next |-> dataStart + compressedSize,
             result |-> ZipResult("ok", "", <<>>, FALSE, visited)]

NotFound(visited) ==
  ZipResult("throw", "Font file not found in ZIP: ", <<>>, FALSE, visited)

\* while (offset < zipData.length - 30): break at a signature that is not the
\* marker, return or throw at the target, else jump to the next header.
RECURSIVE ZipWalk(_, _, _)
ZipWalk(zipData, offset, visited) ==
  IF ~(offset < Len(zipData) - 30)
    THEN NotFound(visited)
    ELSE IF getUint32(zipData, offset) # ZIP_LOCAL_FILE_HEADER_SIGNATURE
           THEN NotFound(Append(visited, offset))
           ELSE LET e == ReadEntry(zipData, offset, Append(visited, offset))
                IN IF e.found THEN e.result
                              ELSE ZipWalk(zipData, e.next, Append(visited, offset))

\* fonts/noto-cjk.ts
extractFontFromZip(zipData) == ZipWalk(zipData, 0, <<>>)

\* The copy of extractFontFromZip at the end of pdf-document.ts:
\* while (offset < zipData.length - 4), and offset++ at a signature that is
\* not the marker.  A header field read past the end of the buffer throws.
RECURSIVE ZipScan(_, _, _)
ZipScan(zipData, offset, visited) ==
  IF ~(offset < Len(zipData) - 4)
    THEN NotFound(visited)
    ELSE IF getUint32(zipData, offset) # 67324752
           THEN ZipScan(zipData, offset + 1, Append(visited, offset))
           ELSE IF offset + 30 > Len(zipData)
                  THEN ZipResult("throw", "RangeError", <<>>, FALSE,
                                 Append(visited, offset))
                  ELSE LET e == ReadEntry(zipData, offset, Append(visited, offset))
                       IN IF e.found THEN e.result
                                     ELSE ZipScan(zipData, e.next, Append(visited, offset))

extractFontFromZipScan(zipData) == ZipScan(zipData, 0, <<>>)

\* ------------------------------------------------ archives given to it
\* An archive is a sequence of records: a local file header with its name,
\* extra field and data, or the start of a central directory header.
LE16(n) == <<n % 256, n \div 256>>
LE32(n) == <<n % 256, (n \div 256) % 256, (n \div 65536) % 256, n \div 16777216>>

ZipEntry(name, extra, method, data) ==
  [header |-> TRUE, name |-> name, extra |-> extra, method |-> method, data |-> data]
CentralDirectory ==
  [header |-> FALSE, name |-> <<>>, extra |-> <<>>, method |-> 0, data |-> <<>>]

\* The bytes of a record: the 30 bytes of the local file header (signature,
\* version, flags, method, time, date, crc, sizes, lengths), little-endian.
RecordBytes(e) ==
  IF e.header
    THEN LE32(ZIP_LOCAL_FILE_HEADER_SIGNATURE) \o <<20, 0>> \o <<0, 0>> \o LE16(e.method)
           \o <<0, 0, 0, 0>> \o <<0, 0, 0, 0>> \o LE32(Len(e.data)) \o LE32(Len(e.data))
           \o LE16(Len(e.name)) \o LE16(Len(e.extra)) \o e.name \o e.extra \o e.data
    ELSE <<80, 75, 1, 2>>

RECURSIVE ArchiveBytes(_)
ArchiveBytes(records) ==
  IF records = <<>> THEN <<>>
                    ELSE RecordBytes(Head(records)) \o ArchiveBytes(Tail(records))

\* 'OTC/NotoSansCJK-Regular.ttc', 'a', and 'NotoSansCJK-Regular.ttc~'
OtcName == <<79, 84, 67, 47>> \o targetFileName
OtherName == <<97>>
BackupName == targetFileName \o <<126>>

ZipRecords ==
  {ZipEntry(OtcName, x, m, <<170, 187>>) : x \in {<<>>, <<0, 0>>}, m \in {0, 8, 12}}
    \cup {ZipEntry(n, x, 0, d) : n \in {OtherName, BackupName}, x \in {<<>>, <<0, 0>>},
                                 d \in {<<>>, <<1>>}}
    \cup {CentralDirectory}
Archives == UNION {[1..n -> ZipRecords] : n \in 0..MaxEntries}

\* lastOp here: the archive, its bytes, and what the extractor made of them.
ZipInput ==
  /\ lastOp.op = "none"
  /\ \E records \in Archives :
       lastOp' = [op |-> "input", records |-> records, zipData |-> ArchiveBytes(records),
                  result |-> NotFound(<<>>)]
  /\ UNCHANGED <<heap, badFree, engine, library, docs, pageHandle>>
  /\ HighUnchanged

\* await extractFontFromZip(new Uint8Array(arrayBuffer)), fonts/noto-cjk.ts
ExtractFont ==
  /\ lastOp.op = "input"
  /\ lastOp' = [lastOp EXCEPT !.op = "extractFontFromZip",
                              !.result = extractFontFromZip(lastOp.zipData)]
  /\ UNCHANGED <<heap, badFree, engine, library, docs, pageHandle>>
  /\ HighUnchanged

\* the same call on the copy in pdf-document.ts
ExtractFontScan ==
  /\ lastOp.op = "input"
  /\ lastOp' = [lastOp EXCEPT !.op = "extractFontFromZip.scan",
                              !.result = extractFontFromZipScan(lastOp.zipData)]
  /\ UNCHANGED <<heap, badFree, engine, library, docs, pageHandle>>
  /\ HighUnchanged

\* --------------------------------------- buffers that are not archives
\* A local file header whose size field is the four bytes `size`, whatever
\* data follows it.
RawRecord(name, size, data) ==
  LE32(ZIP_LOCAL_FILE_HEADER_SIGNATURE) \o <<20, 0>> \o <<0, 0>> \o <<0, 0>>
    \o <<0, 0, 0, 0>> \o <<0, 0, 0, 0>> \o size \o size
    \o LE16(Len(name)) \o <<0, 0>> \o name \o data

\* Size fields: 0, 2, and 0x7f000000, far beyond every buffer.
SizeFields == {<<0, 0, 0, 0>>, <<2, 0, 0, 0>>, <<0, 0, 0, 127>>}

\* What follows the first header: nothing, a stored target entry, a bare
\* signature, or a signature with the start of a header.
Tails ==
  {<<>>, RecordBytes(ZipEntry(OtcName, <<>>, 0, <<1>>)), <<80, 75, 3, 4>>,
   <<80, 75, 3, 4, 20, 0, 0, 0, 0>>}

\* The buffer without its last `cut` bytes.
Truncate(bytes, cut) == SubSeq(bytes, 1, IF cut < Len(bytes) THEN Len(bytes) - cut ELSE 0)

Buffers ==
  {Truncate(junk \o RawRecord(name, size, data) \o tail, cut) :
     junk \in {<<>>, <<0>>}, name \in {OtherName, OtcName}, size \in SizeFields,
     data \in {<<>>, <<170, 187>>}, tail \in Tails, cut \in {0, 1, 32}}

\* a buffer that need not be an archive is downloaded
ZipBytes ==
  /\ lastOp.op = "none"
  /\ \E zipData \in Buffers :
       lastOp' = [op |-> "bytes", records |-> <<>>, zipData |-> zipData,
                  result |-> NotFound(<<>>)]
  /\ UNCHANGED <<heap, badFree, engine, library, docs, pageHandle>>
  /\ HighUnchanged

\* extractFontFromZip of fonts/noto-cjk.ts on such a buffer
ExtractBytes ==
  /\ lastOp.op = "bytes"
  /\ lastOp' = [lastOp EXCEPT !.op = "extractFontFromZip.bytes",
                              !.result = extractFontFromZip(lastOp.zipData)]
  /\ UNCHANGED <<heap, badFree, engine, library, docs, pageHandle>>
  /\ HighUnchanged

\* the copy in pdf-document.ts on such a buffer
ExtractBytesScan ==
  /\ lastOp.op = "bytes"
  /\ lastOp' = [lastOp EXCEPT !.op = "extractFontFromZip.scan.bytes",
                              !.result = extractFontFromZipScan(lastOp.zipData)]
  /\ UNCHANGED <<heap, badFree, engine, library, docs, pageHandle>>
  /\ HighUnchanged

NextZip ==
  \/ ZipInput
  \/ ExtractFont
  \/ ExtractFontScan
  \/ ZipBytes
  \/ ExtractBytes
  \/ ExtractBytesScan

SpecZip == Init /\ [][NextZip]_vars

\* ================ library.ts: initLibraryConfig when malloc returns 0
\* nulls: the allocations of the call, counted from 1, that return 0.  The
\* stores through HEAP32 and HEAPU8 are logged with the pointer they start from.
MallocOrNull(w, kind, n, nulls) ==
  IF n \in nulls THEN Call(w, "malloc", 0) ELSE Malloc(w, kind)

MallocResult(w, n, nulls) == IF n \in nulls THEN 0 ELSE NewPtr(w)

Store(w, ptr) == Call(w, "store", ptr)

\* free(0) does nothing.
FreeOrNull(w, ptr) == IF ptr = 0 THEN Call(w, "free", 0) ELSE Free(w, ptr)

\* The loop of createFontPathsArray from paths[i] on; allocation i + 2 of the
\* call is the one of paths[i].
RECURSIVE AllocFontPathsOrNull(_, _, _, _, _, _)
AllocFontPathsOrNull(w, ptrs, arrayPtr, paths, i, nulls) ==
  IF i > Len(paths)
    THEN [w |-> w, ptrs |-> ptrs]
    ELSE LET pathPtr == MallocResult(w, i + 2, nulls)
             w1 == MallocOrNull(w, "fontPath", i + 2, nulls)
             w2 == Store(w1, pathPtr)
             w3 == Store(w2, arrayPtr)
         IN AllocFontPathsOrNull(w3, Append(ptrs, pathPtr), arrayPtr, paths, i + 1, nulls)

\* initLibraryConfig with createFontPathsArray, on a library that is not
\* initialized: no result of malloc is tested.
initLibraryConfigOrNull(w, lib, nulls) ==
  LET configPtr == MallocResult(w, 1, nulls)
      w1 == MallocOrNull(w, "config", 1, nulls)
      w2 == Store(Store(w1, configPtr), configPtr)
      arrayPtr == MallocResult(w2, 2, nulls)
      w3 == MallocOrNull(w2, "fontPathArray", 2, nulls)
      r == AllocFontPathsOrNull(w3, Append(lib.fontPathPtrs, arrayPtr), arrayPtr,
                                PDFIUM_FONT_PATHS, 1, nulls)
      w4 == Store(r.w, arrayPtr)
      w5 == Store(w4, configPtr)
      w6 == FPDF_InitLibraryWithConfig(w5, configPtr)
      w7 == FreeOrNull(w6, configPtr)
  IN [w |-> w7, status |-> "ok",
      lib |-> [lib EXCEPT !.fontPathPtrs = r.ptrs, !.initialized = TRUE]]

Allocations == 1..(Len(PDFIUM_FONT_PATHS) + 2)

\* lastOp here: the allocations that failed, and what init did.
\* await PDFiumLibrary.init(), the allocator out of memory at `nulls`
LibInitOrNull ==
  /\ ~library.exists
  /\ \E nulls \in SUBSET Allocations :
       LET r == initLibraryConfigOrNull(
                  World, [exists |-> TRUE, initialized |-> FALSE, fontPathPtrs |-> <<>>],
                  nulls)
       IN /\ SetWorld(r.w)
          /\ library' = r.lib
          /\ lastOp' = [op |-> "PDFiumLibrary.init", nulls |-> nulls,
                        status |-> r.status, calls |-> r.w.calls]
  /\ UNCHANGED <<docs, pageHandle>>
  /\ HighUnchanged

\* library.destroy() after it
LibDestroyOrNull ==
  /\ library.initialized
  /\ LET w1 == FPDF_DestroyLibrary(World)
         RECURSIVE FreeEach(_, _)
         FreeEach(w, i) ==
           IF i > Len(library.fontPathPtrs)
             THEN w ELSE FreeEach(FreeOrNull(w, library.fontPathPtrs[i]), i + 1)
         w2 == FreeEach(w1, 1)
     IN /\ SetWorld(w2)
        /\ library' = [library EXCEPT !.fontPathPtrs = <<>>, !.initialized = FALSE]
        /\ lastOp' = [op |-> "PDFiumLibrary.destroy", nulls |-> lastOp.nulls,
                      status |-> "ok", calls |-> w2.calls]
  /\ UNCHANGED <<docs, pageHandle>>
  /\ HighUnchanged

NextInit ==
  \/ LibInitOrNull
  \/ LibDestroyOrNull

SpecInit == Init /\ [][NextInit]_vars

\* ===================== lite.ts: renderPdfPages and getPageCount
\* Here task is the call in flight: for renderPdfPages the generator, with the
\* number of close() calls its finally block has made; lastOp = [op, fn,
\* target, exit, closes, calls], exit "" while the call has not completed.
LiteTask(fn, options) ==
  [kind |-> fn, pdf |-> 0, pc |-> "created", pageNumber |-> 0, rest |-> <<>>,
   options |-> options, image |-> NoImage, closes |-> 0]

LiteOp(name, exit, closes, calls) ==
  [op |-> name, fn |-> task.kind, target |-> task.pdf, exit |-> exit,
   closes |-> closes, calls |-> calls]

\* return() or throw() on a generator that never ran completes it without
\* entering its body; at a yield it resumes the generator inside the try block.
RunsFinallyNever(pc) == FALSE

RunsFinally(pc) == pc = "suspended"

\* finally { await pdf.close() }
LiteFinally(w, pdf) == PdfCloseOp(w, pdf)

\* The call leaves its try block with `exit`: the finally block runs, then the
\* promise or the generator completes.
LiteComplete(name, r, exit) ==
  LET c == LiteFinally(r.w, r.pdf)
  IN /\ SetWorld(c.w)
     /\ pdfs' = [pdfs EXCEPT ![task.pdf] = c.pdf]
     /\ docs' = [docs EXCEPT ![pdfs[task.pdf].document] = c.doc]
     /\ task' = NoTask
     /\ lastOp' = LiteOp(name, exit, task.closes + 1, c.w.calls)

\* The generator goes on: it awaits the encoder or is suspended at a yield.
LiteContinue(name, r, pc, pageNumbers) ==
  /\ SetWorld(r.w)
  /\ pdfs' = [pdfs EXCEPT ![task.pdf] = r.pdf]
  /\ docs' = docs
  /\ task' = [task EXCEPT !.pc = pc, !.image = r.image,
                          !.pageNumber = IF pc = "encoding" THEN Head(pageNumbers) ELSE @,
                          !.rest = IF pc = "encoding" THEN Tail(pageNumbers) ELSE @]
  /\ lastOp' = LiteOp(name, "", task.closes, r.w.calls)

LiteStep(name, r, pageNumbers) ==
  CASE r.status = "pending" -> LiteContinue(name, r, "encoding", pageNumbers)
    [] r.status = "ok" -> LiteContinue(name, r, "suspended", pageNumbers)
    [] OTHER -> LiteComplete(name, r, r.status)

LiteUnchanged == UNCHANGED <<pageHandle, libraryInstance, modules, callers>>

\* renderPdfPages(input, options): the generator object; getPageCount(input):
\* the call, up to its await of openPdf
LiteCall ==
  /\ task.kind = "none"
  /\ \E fn \in {"renderPdfPages", "getPageCount"} :
     \E options \in IF fn = "renderPdfPages" THEN DocRenderOptions ELSE {NoTask.options} :
       /\ task' = LiteTask(fn, options)
       /\ lastOp' = [op |-> "call", fn |-> fn, target |-> 0, exit |-> "", closes |-> 0,
                     calls |-> <<>>]
  /\ UNCHANGED <<heap, badFree, engine, library, docs, pdfs>>
  /\ LiteUnchanged

\* const pdf = await openPdf(input, options): for the generator, on the
\* consumer's first next()
LiteOpen ==
  /\ task.kind # "none"
  /\ task.pc = "created"
  /\ \E password \in {"undefined", "secret"}, eng \in DocLoads :
     \E pdfData \in IF eng.ok THEN DocSamples ELSE {PdfStandard} :
       /\ eng.ok => Len(pdfs) < MaxLiteDocs
       /\ LET l == getLibrary(World)
              r == loadDocument(l.w, password, eng)
          IN /\ SetWorld(r.w)
             /\ library' = l.lib
             /\ libraryInstance' = 1
             /\ docs' = IF r.status = "ok" THEN Append(docs, r.doc) ELSE docs
             /\ pdfs' = IF r.status = "ok"
                          THEN Append(pdfs, NewPdf(Len(docs) + 1, pdfData))
                          ELSE pdfs
             /\ task' = IF r.status = "ok"
                          THEN [task EXCEPT !.pc = "opened", !.pdf = Len(pdfs) + 1]
                          ELSE NoTask
             /\ lastOp' = [LiteOp("open", IF r.status = "ok" THEN "" ELSE "throw", 0,
                                  r.w.calls) EXCEPT
                             !.target = IF r.status = "ok" THEN Len(pdfs) + 1 ELSE 0]
  /\ UNCHANGED <<pageHandle, modules, callers>>

\* try { return pdf.pageCount } finally { await pdf.close() }
LiteGetPageCount ==
  /\ task.kind = "getPageCount"
  /\ task.pc = "opened"
  /\ LET r == pageCount(World, pdfs[task.pdf], FALSE)
     IN LiteComplete("getPageCount", r, IF r.status = "ok" THEN "return" ELSE "throw")
  /\ UNCHANGED library
  /\ LiteUnchanged

\* try { yield* pdf.renderPages(options) }: renderPages up to its first await
LiteStart ==
  /\ task.kind = "renderPdfPages"
  /\ task.pc = "opened"
  /\ \E page \in LifecyclePages :
       LET r == renderPagesStart(World, pdfs[task.pdf], task.options, page)
       IN LiteStep("renderPdfPages.start", r, r.value)
  /\ UNCHANGED library
  /\ LiteUnchanged

\* the encoder answers: renderPageInternal resumes, and the page is yielded
LiteSettle ==
  /\ task.kind = "renderPdfPages"
  /\ task.pc = "encoding"
  /\ \E encoded \in BOOLEAN :
       LET r == renderPageInternalEnd(World, pdfs[task.pdf], task.image, encoded, FALSE)
       IN LiteStep("renderPdfPages.yield", r, task.rest)
  /\ UNCHANGED library
  /\ LiteUnchanged

\* the consumer calls next() at a yield
LiteNext ==
  /\ task.kind = "renderPdfPages"
  /\ task.pc = "suspended"
  /\ \E page \in LifecyclePages :
       LET r == renderPagesLoop(World, pdfs[task.pdf], task.rest, task.options, page, FALSE)
       IN LiteStep("renderPdfPages.next", r, task.rest)
  /\ UNCHANGED library
  /\ LiteUnchanged

\* the consumer stops early: return() or throw() on the generator
LiteStop ==
  /\ task.kind = "renderPdfPages"
  /\ task.pc \in {"created", "suspended"}
  /\ \E how \in {"return", "throw"} :
       IF RunsFinally(task.pc)
         THEN LiteComplete("renderPdfPages.stop",
                           [w |-> World, pdf |-> pdfs[task.pdf]], how)
         ELSE /\ task' = NoTask
              /\ lastOp' = LiteOp("renderPdfPages.stop", how, task.closes, <<>>)
              /\ UNCHANGED <<heap, badFree, engine, docs, pdfs>>
  /\ UNCHANGED library
  /\ LiteUnchanged

NextLite ==
  \/ LiteCall
  \/ LiteOpen
  \/ LiteGetPageCount
  \/ LiteStart
  \/ LiteSettle
  \/ LiteNext
  \/ LiteStop

SpecLite == Init /\ [][NextLite]_vars

\* ========================= fonts.ts: ensureDirectory and registerFonts
\* The virtual filesystem of a module: a function from a path, the sequence
\* of its components, to its node, a directory or a file with its contents;
\* the root is <<>> and always there.
\* The text of the errors FS throws is the module's: env.style is "generic"
\* for a build whose errors all read 'FS error', "errno" for one that names
\* the errno.  env.failAt is the component whose mkdir fails for want of space.
DirNode == [mode |-> "dir"]
FileNode(data) == [mode |-> "file", contents |-> data]
EmptyFS == (<<>> :> DirNode)

StatMissing(style) ==
  IF style = "generic" THEN "FS error" ELSE "ENOENT: no such file or directory"
MkdirNoSpace(style) ==
  IF style = "generic" THEN "FS error" ELSE "ENOSPC: no space left on device"
MkdirExists(style) ==
  IF style = "generic" THEN "FS error" ELSE "EEXIST: file exists"
WriteIsDirectory(style) ==
  IF style = "generic" THEN "FS error" ELSE "EISDIR: illegal operation on a directory"
NotADirectory == "Path exists but is not a directory: "

\* message.includes(needle), for the messages above.
FsMessageIncludes(message, needle) ==
  <<message, needle>> \in
    {<<"FS error", "FS error">>,
     <<"ENOENT: no such file or directory", "no such file">>,
     <<"ENOENT: no such file or directory", "ENOENT">>,
     <<"EEXIST: file exists", "exists">>,
     <<"Path exists but is not a directory: ", "exists">>}

\* A test that sends every error of stat to mkdir.
IsMissingAlways(message) == TRUE

\* The test of the catch block: the error says that the path is missing.
IsMissing(message) ==
  \/ FsMessageIncludes(message, "no such file")
  \/ FsMessageIncludes(message, "ENOENT")
  \/ FsMessageIncludes(message, "FS error")

\* fs.stat(currentPath) followed by fs.isDir(stat.mode): "" when it is a directory.
StatError(fs, currentPath, env) ==
  IF currentPath \in DOMAIN fs
    THEN IF fs[currentPath].mode = "dir" THEN "" ELSE NotADirectory
    ELSE StatMissing(env.style)

\* fs.mkdir(currentPath), for a path whose parent is a directory.
MkdirError(fs, currentPath, env) ==
  IF currentPath \in DOMAIN fs
    THEN MkdirExists(env.style)
    ELSE IF env.failAt = Len(currentPath) THEN MkdirNoSpace(env.style) ELSE ""

\* The loop of ensureDirectory from parts[i] on.
RECURSIVE EnsureLoop(_, _, _, _)
EnsureLoop(fs, parts, i, env) ==
  IF i > Len(parts)
    THEN [fs |-> fs, status |-> "ok", error |-> ""]
    ELSE
      LET currentPath == SubSeq(parts, 1, i)
          error == StatError(fs, currentPath, env)
          mkdirError == MkdirError(fs, currentPath, env)
          made == IF mkdirError = "" THEN (currentPath :> DirNode) @@ fs ELSE fs
      IN IF error = ""
           THEN EnsureLoop(fs, parts, i + 1, env)
           ELSE IF IsMissing(error)
                  THEN IF mkdirError # "" /\ ~FsMessageIncludes(mkdirError, "exists")
                         THEN [fs |-> fs, status |-> "throw", error |-> mkdirError]
                         ELSE EnsureLoop(made, parts, i + 1, env)
                  ELSE [fs |-> fs, status |-> "throw", error |-> error]

\* parts: path.split('/').filter(Boolean)
ensureDirectory(fs, parts, env) == EnsureLoop(fs, parts, 1, env)

\* The loop of registerFonts over the fonts, from fonts[i] on.
RECURSIVE WriteFonts(_, _, _, _, _)
WriteFonts(fs, directory, fonts, i, env) ==
  IF i > Len(fonts)
    THEN [fs |-> fs, status |-> "ok", error |-> ""]
    ELSE
      LET fontPath == Append(directory, fonts[i].name)
      IN IF fontPath \in DOMAIN fs /\ fs[fontPath].mode = "dir"
           THEN [fs |-> fs, status |-> "throw", error |-> WriteIsDirectory(env.style)]
           ELSE WriteFonts((fontPath :> FileNode(fonts[i].data)) @@ fs,
                           directory, fonts, i + 1, env)

\* registerFonts(module, fonts, directory), with the filesystem of the module
registerFontsFS(fs, fonts, directory, env) ==
  LET e == ensureDirectory(fs, directory, env)
  IN IF e.status = "throw" THEN e ELSE WriteFonts(e.fs, directory, fonts, 1, env)

\* fs.unlink(fontPath): "" when the file has been removed.
UnlinkError(fs, fontPath, env) ==
  IF fontPath \notin DOMAIN fs
    THEN StatMissing(env.style)
    ELSE IF fs[fontPath].mode = "dir" THEN WriteIsDirectory(env.style) ELSE ""

\* unregisterFont without its catch block.
unregisterFontRethrows(fs, fontName, directory, env) ==
  LET fontPath == Append(directory, fontName)
      error == UnlinkError(fs, fontPath, env)
  IN IF error = ""
       THEN [fs |-> [p \in DOMAIN fs \ {fontPath} |-> fs[p]], status |-> "ok", error |-> ""]
       ELSE [fs |-> fs, status |-> "throw", error |-> error]

\* unregisterFont(module, fontName, directory): the catch block is empty.
unregisterFont(fs, fontName, directory, env) ==
  LET fontPath == Append(directory, fontName)
      error == UnlinkError(fs, fontPath, env)
  IN IF error = ""
       THEN [fs |-> [p \in DOMAIN fs \ {fontPath} |-> fs[p]], status |-> "ok", error |-> ""]
       ELSE [fs |-> fs, status |-> "ok", error |-> ""]

FontDirectories == {<<"fonts">>, <<"fonts", "noto">>}
FontFileNames == {"noto", "a.ttf"}
FontData == {<<0>>, <<1>>}
FontConfigs == [name : FontFileNames, data : FontData]
FontFiles == {<<>>} \cup {<<f>> : f \in FontConfigs}
               \cup {<<f, g>> : f \in FontConfigs, g \in FontConfigs}
FsEnvs == [style : {"generic", "errno"}, failAt : 0..2]

\* Here modules is <<[fs |-> the filesystem]>> and lastOp = [op, directory,
\* fonts, fontName, env, before, status, error, n].
\* the loader has instantiated the module
FsModule ==
  /\ modules = <<>>
  /\ modules' = <<[fs |-> EmptyFS]>>
  /\ lastOp' = [op |-> "module", directory |-> <<>>, fonts |-> <<>>, fontName |-> "",
                env |-> [style |-> "generic", failAt |-> 0], before |-> EmptyFS,
                status |-> "ok", error |-> "", n |-> 0]
  /\ UNCHANGED <<heap, badFree, engine, library, docs, pageHandle, libraryInstance,
                 callers, pdfs, task>>

\* registerFonts(module, fonts, directory)
RegisterFonts ==
  /\ modules # <<>>
  /\ lastOp.n < MaxRegisters
  /\ \E directory \in FontDirectories, fonts \in FontFiles, env \in FsEnvs :
       LET r == registerFontsFS(modules[1].fs, fonts, directory, env)
       IN /\ modules' = <<[fs |-> r.fs]>>
          /\ lastOp' = [op |-> "registerFonts", directory |-> directory, fonts |-> fonts,
                        fontName |-> "", env |-> env, before |-> modules[1].fs, status |-> r.status,
                        error |-> r.error, n |-> lastOp.n + 1]
  /\ UNCHANGED <<heap, badFree, engine, library, docs, pageHandle, libraryInstance,
                 callers, pdfs, task>>

\* unregisterFont(module, fontName, directory)
UnregisterFont ==
  /\ modules # <<>>
  /\ lastOp.n < MaxRegisters
  /\ \E directory \in FontDirectories, fontName \in FontFileNames, env \in FsEnvs :
       LET r == unregisterFont(modules[1].fs, fontName, directory, env)
       IN /\ modules' = <<[fs |-> r.fs]>>
          /\ lastOp' = [op |-> "unregisterFont", directory |-> directory, fonts |-> <<>>,
                        fontName |-> fontName, env |-> env, before |-> modules[1].fs,
                        status |-> r.status, error |-> r.error, n |-> lastOp.n + 1]
  /\ UNCHANGED <<heap, badFree, engine, library, docs, pageHandle, libraryInstance,
                 callers, pdfs, task>>

NextFs ==
  \/ FsModule
  \/ RegisterFonts
  \/ UnregisterFont

SpecFs == Init /\ [][NextFs]_vars

\* ============================== library.ts: PDFiumPage.close
\* close(): no field of the page records that it has been closed.
PageCloseOp(w, pagePtr) == [w |-> FPDF_ClosePage(w, pagePtr)]

\* document.getPage(pageIndex), by a caller that holds no page yet
PageGet ==
  /\ pageHandle = 0
  /\ DocGetPage

\* page.close()
PageClose ==
  /\ pageHandle # 0
  /\ Len(engine.docs[DocOfPage(pageHandle)].closedPages) < MaxCloses
  /\ LET r == PageCloseOp(World, pageHandle)
     IN /\ SetWorld(r.w)
        /\ lastOp' = [Op("PDFiumPage.close", DocOfPage(pageHandle),
                         pageHandle \in Range(engine.docs[DocOfPage(pageHandle)].closedPages),
                         OkResult, r.w) EXCEPT !.value = pageHandle]
  /\ UNCHANGED <<library, docs, pageHandle>>
  /\ HighUnchanged

NextPage ==
  \/ LibInit
  \/ LibLoadDocument
  \/ PageGet
  \/ PageClose
  \/ DocDestroy
  \/ LibDestroy

SpecPage == Init /\ [][NextPage]_vars

\* ===================== library.ts: what init and loadDocument write to memory
\* The linear memory of the module: bytes maps the addresses written so far
\* to their byte (an address never written holds no known value); brk is the
\* address of the next allocation; gen counts the times the memory has grown;
\* events counts the allocator and engine calls of the operation; acc is the
\* list of its memory accesses and calls the list of its native calls.
NewMemory ==
  [bytes |-> <<>>, brk |-> 8, gen |-> 0, events |-> 0, live |-> {}, acc |-> <<>>,
   calls |-> <<>>]

StartOp(m) == [m EXCEPT !.events = 0, !.acc = <<>>, !.calls = <<>>]

Align(size) == IF size = 0 THEN 8 ELSE ((size + 7) \div 8) * 8

\* wasmExports.malloc(size): event number m.events + 1 of the operation; the
\* memory grows when that number is in grows.
MemMalloc(m, size, grows) ==
  [m EXCEPT !.brk = @ + Align(size), !.events = @ + 1,
            !.gen = IF (m.events + 1) \in grows THEN @ + 1 ELSE @,
            !.live = @ \cup {m.brk}, !.calls = Append(@, <<"malloc", m.brk>>)]

MemFree(m, ptr) ==
  [m EXCEPT !.live = @ \ {ptr}, !.events = @ + 1, !.calls = Append(@, <<"free", ptr>>)]

EngineCall(m, fn, arg) ==
  [m EXCEPT !.events = @ + 1, !.calls = Append(@, <<fn, arg>>)]

\* module.HEAP32 or module.HEAPU8 read now: a view of the memory as it is.
HeapView(m) == [gen |-> m.gen, at |-> m.events]

\* The access a store through `view` makes; lost when the memory has grown
\* since the view was taken, the view being detached from it.
Access(m, view, who) ==
  [fn |-> who, view |-> view.at, at |-> m.events, lost |-> view.gen # m.gen]

RECURSIVE PutBytes(_, _, _, _)
PutBytes(bytes, addr, values, i) ==
  IF i > Len(values) THEN bytes
  ELSE PutBytes((addr + i - 1 :> values[i]) @@ bytes, addr, values, i + 1)

\* heap[addr..] = values through a byte view
StoreBytes(m, view, addr, values, who) ==
  [m EXCEPT !.bytes = IF view.gen = m.gen THEN PutBytes(@, addr, values, 1) ELSE @,
            !.acc = Append(@, Access(m, view, who))]

Word(value) ==
  <<value % 256, (value \div 256) % 256, (value \div 65536) % 256,
    (value \div 16777216) % 256>>

\* HEAP32[index] = value
Store32(m, view, index, value, who) == StoreBytes(m, view, index * 4, Word(value), who)

\* The 32-bit word at addr, -1 when one of its bytes was never written.
Load32(m, addr) ==
  IF \A k \in 0..3 : (addr + k) \in DOMAIN m.bytes
    THEN m.bytes[addr] + 256 * m.bytes[addr + 1] + 65536 * m.bytes[addr + 2]
           + 16777216 * m.bytes[addr + 3]
    ELSE -1

\* The byte at addr, -1 when it was never written.
Load8(m, addr) == IF addr \in DOMAIN m.bytes THEN m.bytes[addr] ELSE -1

\* encoder.encode(str): a string is the sequence of its code points, here
\* below 2048, of one or two bytes each.
RECURSIVE Encode(_)
Encode(str) ==
  IF str = <<>> THEN <<>>
  ELSE (IF Head(str) < 128 THEN <<Head(str)>>
        ELSE <<192 + (Head(str) \div 64), 128 + (Head(str) % 64)>>) \o Encode(Tail(str))

lengthBytesUTF8(str) == Len(Encode(str))

stringToUTF8(m, view, str, outPtr, maxBytes, who) ==
  LET bytes == Encode(str)
      bytesToWrite == IF Len(bytes) < maxBytes - 1 THEN Len(bytes) ELSE maxBytes - 1
      written == SubSeq(bytes, 1, bytesToWrite)
  IN IF maxBytes > 0
       THEN StoreBytes(m, view, outPtr, written \o <<0>>, who)
       ELSE StoreBytes(m, view, outPtr, written, who)

\* The loop of createFontPathsArray from paths[i] on (i counts from 0); HEAP32
\* is the view the function took on entry, HEAPU8 is read anew for each path.
RECURSIVE StorePaths(_, _, _, _, _, _, _)
StorePaths(m, ptrs, HEAP32, arrayPtr, paths, i, grows) ==
  IF i >= Len(paths)
    THEN [m |-> m, ptrs |-> ptrs]
    ELSE
      LET path == paths[i + 1]
          pathBytes == lengthBytesUTF8(path) + 1
          pathPtr == m.brk
          m1 == MemMalloc(m, pathBytes, grows)
          m2 == stringToUTF8(m1, HeapView(m1), path, pathPtr, pathBytes, "stringToUTF8")
          m3 == Store32(m2, HEAP32, (arrayPtr \div 4) + i, pathPtr, "createFontPathsArray")
      IN StorePaths(m3, Append(ptrs, pathPtr), HEAP32, arrayPtr, paths, i + 1, grows)

createFontPathsArrayMem(m, lib, paths, grows) ==
  LET HEAP32 == HeapView(m)
      arrayPtr == m.brk
      m1 == MemMalloc(m, (Len(paths) + 1) * 4, grows)
      r == StorePaths(m1, Append(lib.fontPathPtrs, arrayPtr), HEAP32, arrayPtr, paths, 0,
                      grows)
      m2 == Store32(r.m, HEAP32, (arrayPtr \div 4) + Len(paths), 0, "createFontPathsArray")
  IN [m |-> m2, lib |-> [lib EXCEPT !.fontPathPtrs = r.ptrs], arrayPtr |-> arrayPtr]

CONFIG_SIZE == 24

\* The loop that zero-fills the config struct, from word i on.
RECURSIVE ZeroConfig(_, _, _, _)
ZeroConfig(m, HEAP32, configPtr, i) ==
  IF i >= CONFIG_SIZE \div 4 THEN m
  ELSE ZeroConfig(Store32(m, HEAP32, (configPtr \div 4) + i, 0, "initLibraryConfig"),
                  HEAP32, configPtr, i + 1)

\* The words of the struct at configPtr.
ConfigWords(m, configPtr) ==
  [i \in 1..(CONFIG_SIZE \div 4) |-> Load32(m, configPtr + 4 * (i - 1))]

\* initLibraryConfig with the memory it writes; paths stands for
\* PDFIUM_FONT_PATHS.  config is the struct as init-with-config finds it.
initLibraryConfigMem(m, lib, paths, grows) ==
  LET HEAP32 == HeapView(m)
      configPtr == m.brk
      m1 == MemMalloc(m, CONFIG_SIZE, grows)
      m2 == ZeroConfig(m1, HEAP32, configPtr, 0)
      m3 == Store32(m2, HEAP32, configPtr \div 4, 2, "initLibraryConfig")
      r == createFontPathsArrayMem(m3, lib, paths, grows)
      m4 == Store32(r.m, HEAP32, (configPtr \div 4) + 1, r.arrayPtr, "initLibraryConfig")
      m5 == EngineCall(m4, "FPDF_InitLibraryWithConfig", configPtr)
      m6 == MemFree(m5, configPtr)
  IN [m |-> m6, lib |-> [r.lib EXCEPT !.initialized = TRUE],
      config |-> ConfigWords(m4, configPtr), configPtr |-> configPtr,
      arrayPtr |-> r.arrayPtr]

\* loadDocument with the memory it writes; password = <<>> stands for a
\* password that is not given or empty.
loadDocumentMem(m, data, password, ok, grows) ==
  LET dataPtr == m.brk
      m1 == MemMalloc(m, Len(data), grows)
      m2 == StoreBytes(m1, HeapView(m1), dataPtr, data, "loadDocument")
      passwordBytes == lengthBytesUTF8(password) + 1
      passwordPtr == IF password # <<>> THEN m2.brk ELSE 0
      m3 == IF password # <<>> THEN MemMalloc(m2, passwordBytes, grows) ELSE m2
      m4 == IF password # <<>>
              THEN stringToUTF8(m3, HeapView(m3), password, passwordPtr, passwordBytes,
                                "stringToUTF8")
              ELSE m3
      m5 == EngineCall(m4, "FPDF_LoadMemDocument", dataPtr)
      m6 == IF passwordPtr # 0 THEN MemFree(m5, passwordPtr) ELSE m5
      m7 == IF ok THEN m6 ELSE EngineCall(MemFree(m6, dataPtr), "FPDF_GetLastError", 0)
  IN [m |-> m7, status |-> IF ok THEN "ok" ELSE "throw", dataPtr |-> dataPtr]

\* ------------------------------------------------------------ its inputs
PathChars == {47, 233}
FontPaths == UNION {[1..k -> PathChars] : k \in 1..MaxPathLen}
FontPathLists == UNION {[1..n -> FontPaths] : n \in 0..MaxPaths}
DataBytes == {<<37>>, <<37, 80>>}
PasswordChars == {<<>>, <<115>>, <<233>>}
\* The allocations of an operation that may grow the memory.
Growths == SUBSET (1..(MaxPaths + 2))

\* Here modules is <<the memory>> and lastOp = [op, paths, grows, status,
\* config, configPtr, arrayPtr, acc, calls, n]; n counts the loadDocument calls.
MemOp(name, paths, grows, status, m) ==
  [op |-> name, paths |-> paths, grows |-> grows, status |-> status,
   config |-> <<>>, configPtr |-> 0, arrayPtr |-> 0, acc |-> m.acc, calls |-> m.calls,
   n |-> 0]

\* the loader has instantiated the module
MemModule ==
  /\ modules = <<>>
  /\ modules' = <<NewMemory>>
  /\ lastOp' = MemOp("module", <<>>, {}, "ok", NewMemory)
  /\ UNCHANGED <<heap, badFree, engine, library, docs, pageHandle, libraryInstance,
                 callers, pdfs, task>>

\* new PDFiumLibrary(module) and initLibraryConfig()
MemLibInit ==
  /\ modules # <<>>
  /\ ~library.exists
  /\ \E paths \in FontPathLists, grows \in Growths :
       LET r == initLibraryConfigMem(
                  StartOp(modules[1]),
                  [exists |-> TRUE, initialized |-> FALSE, fontPathPtrs |-> <<>>],
                  paths, grows)
       IN /\ modules' = <<r.m>>
          /\ library' = r.lib
          /\ lastOp' = [MemOp("PDFiumLibrary.init", paths, grows, "ok", r.m) EXCEPT
                          !.config = r.config, !.configPtr = r.configPtr,
                          !.arrayPtr = r.arrayPtr]
  /\ UNCHANGED <<heap, badFree, engine, docs, pageHandle, libraryInstance, callers,
                 pdfs, task>>

\* library.loadDocument(data, password)
MemLoadDocument ==
  /\ library.initialized
  /\ lastOp.n < MaxLoads
  /\ \E data \in DataBytes, password \in PasswordChars, ok \in BOOLEAN,
        grows \in SUBSET (1..2) :
       LET r == loadDocumentMem(StartOp(modules[1]), data, password, ok, grows)
       IN /\ modules' = <<r.m>>
          /\ lastOp' = [MemOp("loadDocument", <<data, password>>, grows, r.status, r.m)
                          EXCEPT !.arrayPtr = r.dataPtr, !.n = lastOp.n + 1]
  /\ UNCHANGED <<heap, badFree, engine, library, docs, pageHandle, libraryInstance,
                 callers, pdfs, task>>

NextMem ==
  \/ MemModule
  \/ MemLibInit
  \/ MemLoadDocument

SpecMem == Init /\ [][NextMem]_vars

\* ==================================================================== claims
CallsOf(fn) == LET IsFn(c) == c[1] = fn IN SelectSeq(lastOp.calls, IsFn)

\* C1: however often destroy() is called on a PDFiumDocument, close-document
\* is issued once with its docPtr and free once with its dataPtr, both by the
\* first call; a later call issues no native call and raises no error.
C1_DestroyOnce ==
  /\ badFree = {}
  /\ \A d \in 1..Len(docs) :
       /\ engine.docs[docs[d].docPtr].closeCalls = IF docs[d].destroyed THEN 1 ELSE 0
       /\ ~docs[d].destroyed =>
            docs[d].dataPtr \in DOMAIN heap /\ heap[docs[d].dataPtr] = "data"
  /\ lastOp.op = "PDFiumDocument.destroy" =>
       /\ lastOp.status = "ok"
       /\ lastOp.calls =
            IF lastOp.before
              THEN <<>>
              ELSE << <<"FPDF_CloseDocument", docs[lastOp.target].docPtr>>,
                      <<"free", docs[lastOp.target].dataPtr>> >>

\* A second destroy() on the same document has run.
C1_Witness ==
  /\ lastOp.op = "PDFiumDocument.destroy"
  /\ lastOp.before
  /\ docs[lastOp.target].destroyed

AllDestroyed ==
  /\ library.exists
  /\ ~library.initialized
  /\ \A d \in 1..Len(docs) : docs[d].destroyed

\* C2: no pointer is freed twice, and once every opened document and the
\* library have been destroyed no allocation of this code is left: config
\* struct, font paths, data and password buffers and framebuffers are all freed.
C2_NoLeakNoDoubleFree ==
  /\ badFree = {}
  /\ AllDestroyed => DOMAIN heap = {}
  /\ \A p \in DOMAIN heap : heap[p] \in {"fontPathArray", "fontPath", "data"}

\* The library is destroyed, after every opened document, by the call that
\* frees the font-path array and the path strings.
C2_Witness ==
  /\ AllDestroyed
  /\ Len(docs) = MaxDocs
  /\ lastOp.op = "PDFiumLibrary.destroy"
  /\ Len(CallsOf("free")) = Len(PDFIUM_FONT_PATHS) + 1

\* C3: on a destroyed PDFiumDocument getPageCount() and getPage(i) throw and
\* make no engine call with the closed docPtr.
C3_ClosedHandleFails ==
  (lastOp.op \in {"getPageCount", "getPage"} /\ lastOp.before) =>
    /\ lastOp.status = "throw"
    /\ lastOp.uac = {}

\* C6: when load-memory-document returns null, loadDocument throws having
\* freed the data buffer and the password buffer: the live allocations are
\* those of before the call and no document handle owns the freed pointer.
C6_FailedLoadFreesAll ==
  (lastOp.op = "loadDocument" /\ lastOp.value = 0) =>
    /\ lastOp.status = "throw"
    /\ heap = lastOp.heapBefore
    /\ badFree = {}
    /\ <<"free", lastOp.calls[1][2]>> \in Range(lastOp.calls)
    /\ Truthy(lastOp.password) => Len(CallsOf("free")) = 2
    /\ \A d \in 1..Len(docs) :
         ~docs[d].destroyed => <<"free", docs[d].dataPtr>> \notin Range(lastOp.calls)

\* A load with a password has failed.
C6_Witness ==
  /\ lastOp.op = "loadDocument"
  /\ lastOp.value = 0
  /\ Truthy(lastOp.password)
  /\ lastOp.status = "throw"

\* C8 as stated: with ignoreMissingGlyphs false, render fails exactly when the
\* characters with a mapping error outnumber missingGlyphThreshold, and a
\* failure returns no pixels.
C8_FailsIffOverThreshold ==
  (lastOp.op = "render" /\ ~lastOp.ignore) =>
    /\ lastOp.status = "throw" <=> lastOp.missing > lastOp.threshold
    /\ lastOp.status = "throw" => lastOp.value = 0

\* C8 amended: render fails exactly when at least one character has a mapping
\* error and their number exceeds the threshold; for a threshold >= 0 that is
\* exactly "more than the threshold".
C8_FailsIffMissingOverThreshold ==
  (lastOp.op = "render" /\ ~lastOp.ignore) =>
    /\ lastOp.status = "throw" <=>
         (lastOp.missing >= 1 /\ lastOp.missing > lastOp.threshold)
    /\ lastOp.threshold >= 0 =>
         (lastOp.status = "throw" <=> lastOp.missing > lastOp.threshold)
    /\ lastOp.status = "throw" => lastOp.value = 0
    /\ lastOp.status = "ok" => lastOp.value > 0

\* A render that passed with as many mapping errors as the threshold allows.
C8_Witness ==
  /\ lastOp.op = "render"
  /\ ~lastOp.ignore
  /\ lastOp.missing = 1
  /\ lastOp.threshold = 1
  /\ lastOp.status = "ok"

\* ------------------------------------------------ claims on PdfDocumentImpl
RenderOps == {"renderPage", "renderPages.start", "renderPages.resume"}
PdfOps == RenderOps \cup {"pageCount", "renderPage.result", "renderPages.yield"}
DocumentCalls ==
  {"FPDF_LoadPage", "FPDF_GetPageWidth", "FPDF_GetPageHeight",
   "FPDF_RenderPageBitmap", "FPDFText_LoadPage", "FPDF_GetPageCount"}

\* C4: however close() interleaves with a consumer of renderPages() or
\* renderPage(), no engine call that takes the document or one of its pages
\* is issued once close() has issued close-document.
C4_NoEngineCallAfterClose ==
  lastOp.op \in PdfOps =>
    \A c \in lastOp.uac : c[1] \notin DocumentCalls

\* C5: after close(), pageCount, renderPage(n) and the first next() of a
\* renderPages() fail with DOCUMENT_CLOSED and issue no native call; a further
\* close() does nothing, and no document is closed in the engine twice.
C5_ClosedDocumentFails ==
  /\ (lastOp.op \in {"pageCount", "renderPage", "renderPages.start"} /\ lastOp.before) =>
       /\ lastOp.status = "throw"
       /\ lastOp.code = "DOCUMENT_CLOSED"
       /\ lastOp.calls = <<>>
  /\ (lastOp.op = "close" /\ lastOp.before) => lastOp.calls = <<>>
  /\ \A d \in 1..Len(engine.docs) : engine.docs[d].closeCalls <= 1

\* A generator that takes its first step on a closed document.
C5_Witness ==
  /\ lastOp.op = "renderPages.start"
  /\ lastOp.before
  /\ lastOp.code = "DOCUMENT_CLOSED"
  /\ engine.docs[docs[pdfs[lastOp.target].document].docPtr].closeCalls = 1

NonEmbedded(p) == detectNonEmbeddedFonts(pdfs[p].pdfData) # <<>>
PagesOfPdf(p) == engine.docs[docs[pdfs[p].document].docPtr].pages
FailsMissingFont ==
  /\ lastOp.status = "throw"
  /\ lastOp.code = "MISSING_FONT"
  /\ CallsOf("FPDF_LoadPage") = <<>>
  /\ CallsOf("FPDFBitmap_CreateEx") = <<>>
  /\ CallsOf("FPDF_RenderPageBitmap") = <<>>

\* C7 as stated: on a document whose analyzer result is non-empty every
\* renderPage call and every step of renderPages fails with MISSING_FONT and
\* issues no load-page, bitmap-create or render-page-bitmap call.
C7_EveryRenderMissingFont ==
  (lastOp.op \in RenderOps /\ NonEmbedded(lastOp.target)) => FailsMissingFont

\* C7 amended: on a document whose analyzer result is non-empty every
\* renderPage call on the open document with a page number within 1..pageCount,
\* and every renderPages step that reaches a page, fails with MISSING_FONT and
\* issues no load-page, bitmap-create or render-page-bitmap call, on the first
\* attempt and on every later one.
C7_ValidRenderMissingFont ==
  (/\ lastOp.op \in RenderOps
   /\ NonEmbedded(lastOp.target)
   /\ ~lastOp.before
   /\ lastOp.pageNumber \in 1..PagesOfPdf(lastOp.target)) => FailsMissingFont

\* A repeated renderPage on such a document: the detection has already run.
C7_Witness ==
  /\ lastOp.op = "renderPage"
  /\ NonEmbedded(lastOp.target)
  /\ lastOp.checked
  /\ lastOp.pageNumber = 1
  /\ FailsMissingFont

\* C9: renderPage(n, { ignoreMissingGlyphs: true }) renders page n even when
\* it has characters with a mapping error.
C9_IgnoreReachesRenderer ==
  (lastOp.op = "renderPage" /\ lastOp.ignore /\ lastOp.missing >= 1) =>
    lastOp.status # "throw"

\* C10: a render that fails over missing glyphs reaches the caller of
\* renderPage with a code of its own, which RENDER_FAILED is not.
C10_MissingGlyphTyped ==
  (lastOp.op = "renderPage" /\ lastOp.error.message = "Missing glyphs detected: ") =>
    (lastOp.status = "throw" /\ lastOp.code # "RENDER_FAILED")

\* ------------------------------------------------------ claims on render
BitmapCreated == CallsOf("FPDFBitmap_FillRect") # <<>>

\* C11: when render fails after it has allocated the framebuffer, be it in
\* bitmap creation, fill, page render, pixel copy or the glyph check, the
\* framebuffer is freed and the bitmap that was created is destroyed before
\* the error leaves render.
C11_FailedRenderCleansUp ==
  (lastOp.op \in {"render", "render.throws"} /\ lastOp.status = "throw") =>
    /\ \A p \in DOMAIN heap : heap[p] # "framebuffer"
    /\ BitmapCreated => CallsOf("FPDFBitmap_Destroy") # <<>>

\* ------------------------------------------- claims on the default library
ByGetLibrary == {k \in 1..Len(modules) : modules[k].by = "getLibrary"}
Opened == {c \in 1..MaxCallers : callers[c].pc = "opened"}

\* C12: however openPdf, getPageCount and renderPdfPages calls interleave,
\* getLibrary calls PDFiumLibrary.init() at most once, and every caller gets
\* the same library instance.
C12_InitAtMostOnce ==
  /\ Cardinality(ByGetLibrary) <= 1
  /\ \A c1, c2 \in Opened : callers[c1].lib = callers[c2].lib

\* C13: a document opened with openPdf() after library.registerFonts(fonts)
\* is handled by a library whose module holds those fonts.
C13_OpenUsesRegisteredFonts ==
  \A c \in Opened : callers[c].fonts \subseteq modules[callers[c].lib].fonts

\* ------------------------------------------------------ claims on getPage
LoadedIndex == CallsOf("FPDF_LoadPage")[1][2]
PagesOfDoc(d) == engine.docs[docs[d].docPtr].pages

\* C14: on an open PDFiumDocument of N pages getPage(i) returns a page handle
\* for 0 <= i < N and throws for i < 0 or i >= N; a null result of load-page
\* is never wrapped in a handle.
C14_GetPageInRange ==
  (lastOp.op = "getPage" /\ ~lastOp.before) =>
    /\ Len(CallsOf("FPDF_LoadPage")) = 1
    /\ (0 <= LoadedIndex /\ LoadedIndex < PagesOfDoc(lastOp.target)) =>
         /\ lastOp.status = "ok"
         /\ lastOp.value = PagePtr(docs[lastOp.target].docPtr, LoadedIndex)
         /\ pageHandle = lastOp.value
    /\ (LoadedIndex < 0 \/ LoadedIndex >= PagesOfDoc(lastOp.target)) =>
         /\ lastOp.status = "throw"
         /\ lastOp.value = 0
    /\ lastOp.status = "ok" => lastOp.value # 0

\* getPage(N) on an open document of N pages throws.
C14_Witness ==
  /\ lastOp.op = "getPage"
  /\ ~lastOp.before
  /\ LoadedIndex = PagesOfDoc(lastOp.target)
  /\ lastOp.status = "throw"

\* ---------------------------------------------- claims on page numbers
\* Whether every page number that `pages` asks for is within 1..n.
PagesValid(pages, n) ==
  LET start == IF pages.hasStart THEN pages.start ELSE 1
      end == IF pages.hasEnd THEN pages.end ELSE n
  IN CASE pages.form = "undefined" -> TRUE
       [] pages.form = "array" -> \A i \in 1..Len(pages.list) : pages.list[i] \in 1..n
       [] OTHER -> start \in 1..n /\ end >= start /\ end <= n

RejectedUnrendered ==
  /\ lastOp.status = "throw"
  /\ lastOp.code = "INVALID_PAGE_NUMBER"
  /\ CallsOf("FPDF_LoadPage") = <<>>
  /\ CallsOf("FPDFBitmap_CreateEx") = <<>>
  /\ CallsOf("FPDF_RenderPageBitmap") = <<>>

LoadsOnly(pageIndex) ==
  /\ lastOp.code # "INVALID_PAGE_NUMBER"
  /\ \A c \in Range(CallsOf("FPDF_LoadPage")) : c[2] = pageIndex
  /\ ~NonEmbedded(lastOp.target) => Len(CallsOf("FPDF_LoadPage")) = 1

\* C15: on an open document renderPage(n) with n outside 1..pageCount, and
\* renderPages({ pages }) with any number or range bound outside it, fail with
\* INVALID_PAGE_NUMBER before any load-page or render call, so that renderPages
\* renders no page at all; a valid page number n is loaded with index n - 1.
C15_InvalidPagesRejected ==
  /\ (lastOp.op = "renderPage" /\ ~lastOp.before) =>
       IF lastOp.pageNumber \in 1..PagesOfPdf(lastOp.target)
         THEN LoadsOnly(lastOp.pageNumber - 1)
         ELSE RejectedUnrendered
  /\ (lastOp.op = "renderPages.start" /\ ~lastOp.before) =>
       IF PagesValid(lastOp.pages, PagesOfPdf(lastOp.target))
         THEN LoadsOnly(lastOp.pageNumber - 1)
         ELSE RejectedUnrendered
  /\ (lastOp.op = "renderPages.resume" /\ ~lastOp.before /\ lastOp.status # "done") =>
       LoadsOnly(lastOp.pageNumber - 1)

\* renderPages over [1, pageCount + 1]: page 1 is valid, yet nothing is loaded.
C15_Witness ==
  /\ lastOp.op = "renderPages.start"
  /\ ~lastOp.before
  /\ lastOp.pages = PagesArray(<<1, MaxPages + 1>>)
  /\ RejectedUnrendered

\* ------------------------------------------------ claims on the pixel data
\* C16: every image that render returns has data.length = width * height * 4,
\* whatever the size of the page and the scale.
C16_DataLength ==
  (lastOp.op = "render" /\ lastOp.status = "ok") =>
    /\ lastOp.image.dataLen = lastOp.image.width * lastOp.image.height * 4
    /\ lastOp.image.width > 0
    /\ lastOp.image.height > 0

\* A page 3 points wide rendered at scale 1.5: 5 pixels a row.
C16_Witness ==
  /\ lastOp.op = "render"
  /\ lastOp.status = "ok"
  /\ lastOp.image.width = 5
  /\ lastOp.image.height = 3
  /\ lastOp.image.dataLen = 60

\* ------------------------------------------- claims on convertBgraToRgba
\* C17 as stated: for every byte sequence b,
\* convertBgraToRgba(convertBgraToRgba(b)) is b, byte for byte.
C17_Involution ==
  (lastOp.op = "convertBgraToRgba" /\ lastOp.n = 2) => lastOp.output = lastOp.original

\* C17 amended: for every byte sequence b whose length is a multiple of 4,
\* convertBgraToRgba(convertBgraToRgba(b)) is b, byte for byte.
C17_InvolutionOnPixels ==
  (lastOp.op = "convertBgraToRgba" /\ lastOp.n = 2 /\ Len(lastOp.original) % 4 = 0) =>
    lastOp.output = lastOp.original

\* Two pixels converted twice, each with blue and red different.
C17_Witness ==
  /\ lastOp.op = "convertBgraToRgba"
  /\ lastOp.n = 2
  /\ Len(lastOp.original) = 8
  /\ lastOp.original[1] # lastOp.original[3]
  /\ lastOp.original[5] # lastOp.original[7]
  /\ lastOp.input # lastOp.original

\* C18: for an input of 4k bytes convertBgraToRgba returns a buffer of the
\* same length where, in each pixel, bytes 0 and 2 are those of the input
\* exchanged and bytes 1 and 3 are those of the input; the input is unchanged.
C18_SwapsRedAndBlue ==
  (lastOp.op = "convertBgraToRgba" /\ Len(lastOp.input) % 4 = 0) =>
    /\ Len(lastOp.output) = Len(lastOp.input)
    /\ \A p \in 0..(Len(lastOp.input) \div 4 - 1) :
         /\ lastOp.output[4 * p + 1] = lastOp.input[4 * p + 3]
         /\ lastOp.output[4 * p + 3] = lastOp.input[4 * p + 1]
         /\ lastOp.output[4 * p + 2] = lastOp.input[4 * p + 2]
         /\ lastOp.output[4 * p + 4] = lastOp.input[4 * p + 4]
    /\ lastOp.after = lastOp.input

\* Two pixels converted once, blue and red different in both.
C18_Witness ==
  /\ lastOp.op = "convertBgraToRgba"
  /\ lastOp.n = 1
  /\ Len(lastOp.input) = 8
  /\ lastOp.input[1] # lastOp.input[3]
  /\ lastOp.input[5] # lastOp.input[7]
  /\ lastOp.output # lastOp.input

\* ------------------------------------------------- claims on the analyzer
NamesOf(key) ==
  {lastOp.pdfData[i].name : i \in {j \in 1..Len(lastOp.pdfData) : lastOp.pdfData[j].key = key}}
SixUpperPlus(name) ==
  Len(name) >= 7 /\ name[7] = "+" /\ \A i \in 1..6 : name[i] \in UpperCase
Reported ==
  {name \in NamesOf("BaseFont") : ~SixUpperPlus(name) /\ name \notin PDF_BASE_14_FONTS}

\* C19: without a /Subtype tag of CIDFontType0, CIDFontType2, TrueType, Type0
\* or OpenType the analyzer returns the empty list; with one it returns the
\* /BaseFont names that have no six-letter subset prefix and are not one of
\* the 14 standard names, each once; standard names alone give the empty list.
C19_AnalyzerResult ==
  lastOp.op = "detectNonEmbeddedFonts" =>
    /\ NamesOf("Subtype") \cap EmbeddingSubtypes = {} => lastOp.fonts = <<>>
    /\ NamesOf("Subtype") \cap EmbeddingSubtypes # {} =>
         /\ Range(lastOp.fonts) = Reported
         /\ Cardinality(Reported) = Len(lastOp.fonts)
    /\ NamesOf("BaseFont") \subseteq PDF_BASE_14_FONTS => lastOp.fonts = <<>>

\* A TrueType document that names Arial twice: it is reported once.
C19_Witness ==
  /\ lastOp.op = "detectNonEmbeddedFonts"
  /\ lastOp.pdfData = <<Tok("Subtype", TrueType), Tok("BaseFont", Arial), Tok("BaseFont", Arial)>>
  /\ lastOp.fonts = <<Arial>>

\* C20: with a TrueType subtype tag anywhere in the bytes a BaseFont name
\* "Arial" is in the result; "ABCDEF+Arial" is never in the result.
C20_ArialAndSubsetArial ==
  lastOp.op = "detectNonEmbeddedFonts" =>
    /\ (TrueType \in NamesOf("Subtype") /\ Arial \in NamesOf("BaseFont")) =>
         Arial \in Range(lastOp.fonts)
    /\ SubsetArial \notin Range(lastOp.fonts)

\* Arial named before the TrueType tag, next to ABCDEF+Arial.
C20_Witness ==
  /\ lastOp.op = "detectNonEmbeddedFonts"
  /\ lastOp.pdfData = <<Tok("BaseFont", Arial), Tok("BaseFont", SubsetArial), Tok("Subtype", TrueType)>>
  /\ lastOp.fonts = <<Arial>>

\* ------------------------------------------- claims on extractFontFromZip
ZipOps == {"extractFontFromZip", "extractFontFromZip.scan"}
IsTarget(k) == lastOp.records[k].header /\ endsWith(lastOp.records[k].name, targetFileName)

\* Where record k of the archive starts: o(1) = 0 and each record adds its
\* header, file name, extra field and data.
RECURSIVE RecordOffset(_)
RecordOffset(k) ==
  IF k = 1
    THEN 0
    ELSE LET e == lastOp.records[k - 1]
         IN RecordOffset(k - 1)
              + (IF e.header THEN 30 + Len(e.name) + Len(e.extra) + Len(e.data) ELSE 4)

\* C21: the archive walker stops at the first record whose signature is not
\* the local-file-header marker: it reads nothing beyond it, and a target
\* entry behind such a record is not found, the call failing with NotFound.
C21_StopsAtNonHeader ==
  lastOp.op \in ZipOps =>
    \A k \in 1..Len(lastOp.records) :
      (/\ ~lastOp.records[k].header
       /\ \A j \in 1..(k - 1) : lastOp.records[j].header /\ ~IsTarget(j)) =>
        /\ lastOp.result.status = "throw"
        /\ lastOp.result.error = "Font file not found in ZIP: "
        /\ \A i \in 1..Len(lastOp.result.visited) :
             lastOp.result.visited[i] <= RecordOffset(k)

Chain == \A k \in 1..Len(lastOp.records) : lastOp.records[k].header
Matches == {k \in 1..Len(lastOp.records) : IsTarget(k)}
FirstMatch == CHOOSE k \in Matches : \A j \in Matches : k <= j

\* C22: on a chain of local file headers from offset 0 the extractor visits
\* o(0) = 0, o(k+1) = o(k) + 30 + filenameLength + extraLength + compressedSize,
\* up to the first entry whose name ends with the target name; for method 0 it
\* returns the compressedSize bytes at o + 30 + filenameLength + extraLength,
\* which are the stored bytes; with no such entry it fails with NotFound.
C22_ChainExtraction ==
  (lastOp.op = "extractFontFromZip" /\ Chain) =>
    IF Matches = {}
      THEN /\ lastOp.result.status = "throw"
           /\ lastOp.result.error = "Font file not found in ZIP: "
           /\ lastOp.result.visited = [k \in 1..Len(lastOp.records) |-> RecordOffset(k)]
      ELSE LET e == lastOp.records[FirstMatch]
               dataStart == RecordOffset(FirstMatch) + 30 + Len(e.name) + Len(e.extra)
           IN /\ lastOp.result.visited = [k \in 1..FirstMatch |-> RecordOffset(k)]
              /\ e.method = 0 =>
                   /\ lastOp.result.status = "ok"
                   /\ ~lastOp.result.inflate
                   /\ lastOp.result.data = e.data
                   /\ lastOp.result.data =
                        SubSeq(lastOp.zipData, dataStart + 1, dataStart + Len(e.data))

\* The stored target is the second entry, both entries with an extra field.
C22_Witness ==
  /\ lastOp.op = "extractFontFromZip"
  /\ lastOp.records = <<ZipEntry(BackupName, <<0, 0>>, 0, <<1>>),
                        ZipEntry(OtcName, <<0, 0>>, 0, <<170, 187>>)>>
  /\ lastOp.result.status = "ok"
  /\ lastOp.result.data = <<170, 187>>
  /\ lastOp.result.visited = <<0, 57>>

\* -------------------------------------- claims on a failing allocator
\* C23: when an allocation made while building the native configuration (the
\* config struct, the font-path array or a path string) returns 0, init fails
\* with an error: init-with-config is not called and nothing is stored
\* through the null pointer.
C23_NullAllocationAborts ==
  (lastOp.op = "PDFiumLibrary.init" /\ lastOp.nulls # {}) =>
    /\ lastOp.status = "throw"
    /\ CallsOf("FPDF_InitLibraryWithConfig") = <<>>
    /\ <<"store", 0>> \notin Range(lastOp.calls)

\* ------------------------------- claims on renderPdfPages and getPageCount
InFlight == IF task.kind = "none" THEN {} ELSE {task.pdf}
CloseDocumentCalls(p) == engine.docs[docs[pdfs[p].document].docPtr].closeCalls

\* C24: renderPdfPages and getPageCount close the document they opened on
\* every exit: all pages yielded, a failure while rendering, return() or
\* throw() by the consumer.  When the call or generator completes close() has
\* been called on the document once, and not before.
C24_ClosedOnEveryExit ==
  /\ \A p \in 1..Len(pdfs) :
       IF p \in InFlight
         THEN ~pdfs[p].closed /\ CloseDocumentCalls(p) = 0 /\ task.closes = 0
         ELSE pdfs[p].closed /\ CloseDocumentCalls(p) = 1
  /\ (lastOp.op # "none" /\ lastOp.exit # "" /\ lastOp.target # 0) =>
       /\ lastOp.closes = 1
       /\ Len(CallsOf("FPDF_CloseDocument")) = 1
       /\ task.kind = "none"
  /\ badFree = {}

\* The consumer has stopped a generator that had yielded a page.
C24_Witness ==
  /\ lastOp.op = "renderPdfPages.stop"
  /\ lastOp.exit = "return"
  /\ lastOp.target = 1
  /\ lastOp.closes = 1
  /\ pdfs[1].closed

\* ------------------------------------------------ claims on open failures
\* C25: a failed open is classified by the native error code: the format
\* code gives INVALID_PDF; the password code gives PASSWORD_REQUIRED when no
\* password was given and INVALID_PASSWORD when one was.
C25_OpenFailureByCode ==
  (lastOp.op = "open" /\ lastOp.status = "throw") =>
    /\ lastOp.native = FPDF_FORMAT => lastOp.code = "INVALID_PDF"
    /\ lastOp.native = FPDF_PASSWORD =>
         lastOp.code = IF Truthy(lastOp.password) THEN "INVALID_PASSWORD"
                                                  ELSE "PASSWORD_REQUIRED"

Taxonomy == {"INVALID_PDF", "PASSWORD_REQUIRED", "INVALID_PASSWORD", "UNKNOWN"}
CarriesCode(error) == error.message = "PDFium error: " /\ error.arg = lastOp.native

\* C26: whatever code get-last-error returns, among 0..6 or not, the error
\* that loadDocument and openPdf give the caller has a kind of the taxonomy
\* and neither its kind nor its message holds the number.
C26_NoRawCode ==
  /\ (lastOp.op = "loadDocument" /\ lastOp.status = "throw") => ~CarriesCode(lastOp.error)
  /\ (lastOp.op = "open" /\ lastOp.status = "throw") =>
       /\ lastOp.code \in Taxonomy
       /\ ~CarriesCode(PdfErrorMessage(lastOp.error))

\* ----------------------------------------------- claims on registerFonts
Components == {SubSeq(lastOp.directory, 1, i) : i \in 1..Len(lastOp.directory)}
ExistingDirs == {c \in Components : c \in DOMAIN lastOp.before /\ lastOp.before[c].mode = "dir"}
NonDirs == {c \in Components : c \in DOMAIN lastOp.before /\ lastOp.before[c].mode # "dir"}
\* The component whose mkdir fails is one that has to be made.
MkdirFails ==
  /\ NonDirs = {}
  /\ \E c \in Components \ ExistingDirs : Len(c) = lastOp.env.failAt
FontIsDirectory ==
  \E i \in 1..Len(lastOp.fonts) :
    LET fontPath == Append(lastOp.directory, lastOp.fonts[i].name)
    IN fontPath \in DOMAIN lastOp.before /\ lastOp.before[fontPath].mode = "dir"

\* C27: registerFonts creates its directory idempotently: with some or all of
\* the components of the path already there as directories it succeeds, any
\* number of times; a mkdir failure other than "exists", or a component that
\* is there but is no directory, reaches the caller as an error.
C27_DirectoryCreationIdempotent ==
  lastOp.op = "registerFonts" =>
    /\ (NonDirs = {} /\ ~MkdirFails /\ ~FontIsDirectory) =>
         /\ lastOp.status = "ok"
         /\ \A c \in Components : c \in DOMAIN modules[1].fs /\ modules[1].fs[c].mode = "dir"
         /\ \A p \in DOMAIN lastOp.before : p \in DOMAIN modules[1].fs
    /\ (ExistingDirs = Components /\ ~FontIsDirectory) => lastOp.status = "ok"
    /\ NonDirs # {} =>
         /\ lastOp.status = "throw"
         /\ lastOp.error = NotADirectory
    /\ MkdirFails =>
         /\ lastOp.status = "throw"
         /\ lastOp.error = MkdirNoSpace(lastOp.env.style)

\* registerFonts again with /fonts/noto, both directories there, has succeeded.
C27_Witness ==
  /\ lastOp.op = "registerFonts"
  /\ lastOp.n >= 2
  /\ lastOp.directory = <<"fonts", "noto">>
  /\ ExistingDirs = Components
  /\ lastOp.fonts # <<>>
  /\ lastOp.status = "ok"

\* --------------------------------------------- claims on PDFiumPage.close
ClosePageCalls(d, pagePtr) ==
  Cardinality({i \in 1..Len(engine.docs[d].closedPages) :
                 engine.docs[d].closedPages[i] = pagePtr})

\* C28: however often close() is called on a PDFiumPage, close-page is issued
\* at most once with its pagePtr, and never once close-document has released
\* the document of the page.
C28_PageCloseSafe ==
  /\ \A d \in 1..Len(engine.docs) :
       \A pagePtr \in Range(engine.docs[d].closedPages) : ClosePageCalls(d, pagePtr) <= 1
  /\ lastOp.op = "PDFiumPage.close" => lastOp.uac = {}

\* ------------------------------------------- claims on the render pipeline
\* The native operations of render between its size queries and its return.
PipelineOrder ==
  <<"malloc", "FPDFBitmap_CreateEx", "FPDFBitmap_FillRect", "FPDF_RenderPageBitmap",
    "HEAPU8", "data.set", "FPDFBitmap_Destroy", "free">>

PipelineCalls ==
  LET InPipeline(c) == c[1] \in Range(PipelineOrder) \cup {"FPDFText_LoadPage"}
  IN SelectSeq(lastOp.calls, InPipeline)

PipelineNames == [i \in 1..Len(PipelineCalls) |-> PipelineCalls[i][1]]

\* C29: a render call issues malloc, bitmap-create over the buffer, fill-rect
\* of the whole bitmap in opaque white, render-page-bitmap with rotation 0 and
\* flags 0, the memory view and the pixel copy, bitmap-destroy and free in
\* this order, and the glyph check only after them; the fill leaves no byte
\* of the buffer unwritten, and a render that throws midway has issued a
\* prefix of the order.
C29_RenderOrder ==
  /\ lastOp.op \in {"render", "render.check.throws"} =>
       /\ PipelineNames =
            PipelineOrder \o
              (IF lastOp.ignore /\ lastOp.op = "render" THEN <<>> ELSE <<"FPDFText_LoadPage">>)
       /\ LET bufferPtr == PipelineCalls[1][2]
          IN /\ PipelineCalls[2][2] = bufferPtr
             /\ PipelineCalls[3][2] = BitmapPtr(bufferPtr)
             /\ PipelineCalls[4][2] = pageHandle
             /\ PipelineCalls[5][2] = bufferPtr
             /\ PipelineCalls[6][2] = bufferPtr
             /\ PipelineCalls[7][2] = BitmapPtr(bufferPtr)
             /\ PipelineCalls[8][2] = bufferPtr
       /\ lastOp.pipeline.fill.left = 0 /\ lastOp.pipeline.fill.top = 0
       /\ lastOp.pipeline.fill.color = <<255, 255, 255, 255>>
       /\ lastOp.status = "ok" =>
            /\ lastOp.pipeline.fill.width = lastOp.image.width
            /\ lastOp.pipeline.fill.height = lastOp.image.height
       /\ lastOp.pipeline.unwritten = 0
       /\ lastOp.pipeline.rotate = 0 /\ lastOp.pipeline.flags = 0
  /\ lastOp.op = "render.throws" =>
       /\ Len(PipelineNames) <= Len(PipelineOrder)
       /\ PipelineNames = SubSeq(PipelineOrder, 1, Len(PipelineNames))

C29_Witness ==
  /\ lastOp.op = "render" /\ lastOp.status = "ok" /\ ~lastOp.ignore
  /\ lastOp.image.dataLen > BYTES_PER_PIXEL
  /\ Len(PipelineNames) = Len(PipelineOrder) + 1

\* ---------------------------------------------- claims on the glyph check
TextCloses == CallsOf("FPDFText_ClosePage")

\* The position of the last call with this name, 0 when there is none.
LastCall(fn) ==
  LET at == {i \in 1..Len(lastOp.calls) : lastOp.calls[i][1] = fn}
  IN IF at = {} THEN 0 ELSE CHOOSE i \in at : \A j \in at : j <= i

\* C30: a glyph check whose text-load-page succeeded issues text-close-page
\* exactly once, on the pointer it loaded and after its last count-chars and
\* has-unicode-map-error call, whether it returns or one of these calls
\* throws; a check whose text-load-page returned null issues no
\* text-close-page and counts zero missing glyphs.
C30_TextPageClosed ==
  (/\ lastOp.op \in {"render", "render.check.throws"}
   /\ CallsOf("FPDFText_LoadPage") # <<>>) =>
     IF lastOp.textPage # 0
       THEN /\ TextCloses = <<(<<"FPDFText_ClosePage", lastOp.textPage>>)>>
            /\ LastCall("FPDFText_ClosePage") = Len(lastOp.calls)
            /\ LastCall("FPDFText_ClosePage") > LastCall("FPDFText_CountChars")
            /\ LastCall("FPDFText_ClosePage") > LastCall("FPDFText_HasUnicodeMapError")
       ELSE /\ TextCloses = <<>>
            /\ lastOp.missingCount = 0
            /\ lastOp.status = "ok"

C30_Witness ==
  /\ lastOp.op = "render.check.throws"
  /\ lastOp.textPage # 0
  /\ CallsOf("FPDFText_HasUnicodeMapError") # <<>>
  /\ TextCloses # <<>>

\* ------------------------------------ claims on the memory of the library
\* The pointers freed by the last operation, in order.
Freed == [i \in 1..Len(CallsOf("free")) |-> CallsOf("free")[i][2]]

\* C31: init frees the config struct right after init-with-config and nothing
\* else; the font-path array and the path strings stay allocated while the
\* library is initialised; the first destroy() calls destroy-library and then
\* frees each of them once, and a later destroy() makes no call at all.
C31_PathsOutliveLibrary ==
  /\ \A p \in DOMAIN heap : heap[p] # "config"
  /\ library.initialized =>
       /\ Len(library.fontPathPtrs) = Len(PDFIUM_FONT_PATHS) + 1
       /\ \A i \in 1..Len(library.fontPathPtrs) :
            /\ library.fontPathPtrs[i] \in DOMAIN heap
            /\ heap[library.fontPathPtrs[i]] =
                 IF i = 1 THEN "fontPathArray" ELSE "fontPath"
  /\ (library.exists /\ ~library.initialized) =>
       \A p \in DOMAIN heap : heap[p] \notin {"fontPathArray", "fontPath"}
  /\ lastOp.op = "PDFiumLibrary.init" =>
       /\ lastOp.calls[1][1] = "malloc"
       /\ lastOp.calls[Len(lastOp.calls) - 1] =
            <<"FPDF_InitLibraryWithConfig", lastOp.calls[1][2]>>
       /\ lastOp.calls[Len(lastOp.calls)] = <<"free", lastOp.calls[1][2]>>
       /\ Len(Freed) = 1
  /\ lastOp.op = "PDFiumLibrary.destroy" =>
       IF lastOp.before
         THEN lastOp.calls = <<>>
         ELSE /\ lastOp.calls[1][1] = "FPDF_DestroyLibrary"
              /\ Len(CallsOf("FPDF_DestroyLibrary")) = 1
              /\ Len(Freed) = Len(PDFIUM_FONT_PATHS) + 1
              /\ Len(lastOp.calls) = Len(Freed) + 1
              /\ \A i, j \in 1..Len(Freed) : Freed[i] = Freed[j] => i = j
              /\ badFree = {}

\* A second destroy() of the library has run.
C31_Witness ==
  /\ lastOp.op = "PDFiumLibrary.destroy"
  /\ lastOp.before
  /\ engine.lib = "destroyed"

\* ------------------------- claims on the engine after destroy-library
DocumentEntryPoints ==
  {"FPDF_LoadMemDocument", "FPDF_CloseDocument", "FPDF_GetPageCount", "FPDF_LoadPage"}

DocumentOps == {"loadDocument", "getPageCount", "getPage", "PDFiumDocument.destroy"}

\* C37: once destroy-library has been called, no operation of the library or
\* of a document issues load-memory-document, close-document, get-page-count
\* or load-page; and destroy() of the library calls destroy-library only when
\* no document is open.
C37_NoDocumentCallAfterDestroyLibrary ==
  /\ (lastOp.op \in DocumentOps /\ engine.lib = "destroyed") =>
       \A i \in 1..Len(lastOp.calls) : lastOp.calls[i][1] \notin DocumentEntryPoints
  /\ (lastOp.op = "PDFiumLibrary.destroy" /\ \E d \in 1..Len(docs) : ~docs[d].destroyed) =>
       CallsOf("FPDF_DestroyLibrary") = <<>>

\* --------------------------------------- claims on the memory init writes
\* C32: when init-with-config is invoked the struct at configPtr holds 2 in
\* its first word, the pointer to the font-path array in its second and zero
\* in its four remaining words.
C32_ConfigStruct ==
  lastOp.op = "PDFiumLibrary.init" =>
    lastOp.config = <<2, lastOp.arrayPtr, 0, 0, 0, 0>>

\* The bytes from addr up to the first zero byte, at most `limit` of them.
RECURSIVE CString(_, _, _)
CString(m, addr, limit) ==
  IF limit = 0 \/ Load8(m, addr) = 0 THEN <<>>
  ELSE <<Load8(m, addr)>> \o CString(m, addr + 1, limit - 1)

\* C33: for n paths createFontPathsArray records n + 1 pairwise distinct
\* pointers, the array first; slot i of the array points to the buffer of
\* path i, which holds the UTF-8 bytes of the path and a zero byte, and slot n
\* holds 0.
C33_FontPathsArray ==
  lastOp.op = "PDFiumLibrary.init" =>
    LET n == Len(lastOp.paths)
        ptrs == library.fontPathPtrs
        m == modules[1]
    IN /\ Len(ptrs) = n + 1
       /\ ptrs[1] = lastOp.arrayPtr
       /\ \A i, j \in 1..(n + 1) : ptrs[i] = ptrs[j] => i = j
       /\ \A i \in 0..(n - 1) :
            /\ Load32(m, lastOp.arrayPtr + 4 * i) = ptrs[i + 2]
            /\ CString(m, ptrs[i + 2], 2 * MaxPathLen + 1) = Encode(lastOp.paths[i + 1])
            /\ Load8(m, ptrs[i + 2] + Len(Encode(lastOp.paths[i + 1]))) = 0
       /\ Load32(m, lastOp.arrayPtr + 4 * n) = 0

\* C38: every store of initLibraryConfig, createFontPathsArray and
\* loadDocument goes through a view of the memory taken after the latest
\* allocator or engine call before it.
C38_FreshViews ==
  lastOp.op \in {"PDFiumLibrary.init", "loadDocument"} =>
    \A i \in 1..Len(lastOp.acc) : lastOp.acc[i].view = lastOp.acc[i].at

\* ------------------------------------ claims on the compression method
\* The first target entry of the archive that the walk reaches: every record
\* before it is a local file header of another name.
Reached(k) ==
  /\ IsTarget(k)
  /\ \A j \in 1..(k - 1) : lastOp.records[j].header /\ ~IsTarget(j)

\* C34: when the first target entry the walker reaches has a compression
\* method other than 0 and 8, the call fails with the unsupported-compression
\* error, returns no data, and has read no header behind that entry.
C34_UnsupportedCompression ==
  lastOp.op = "extractFontFromZip" =>
    \A k \in 1..Len(lastOp.records) :
      (Reached(k) /\ lastOp.records[k].method \notin {0, 8}) =>
        /\ lastOp.result.status = "throw"
        /\ lastOp.result.error = "Unsupported compression method: "
        /\ lastOp.result.data = <<>>
        /\ lastOp.result.visited = [j \in 1..k |-> RecordOffset(j)]

\* A target entry of method 12 comes before a stored target entry.
C34_Witness ==
  /\ lastOp.op = "extractFontFromZip"
  /\ Len(lastOp.records) = 2
  /\ Reached(1) /\ lastOp.records[1].method = 12
  /\ IsTarget(2) /\ lastOp.records[2].method = 0
  /\ lastOp.result.status = "throw"

\* ------------------------------------------ claims on the end of the scan
ExtractOps ==
  {"extractFontFromZip", "extractFontFromZip.scan", "extractFontFromZip.bytes",
   "extractFontFromZip.scan.bytes"}

\* The offset holds the local-file-header signature.
IsHeaderAt(offset) ==
  /\ offset + 4 <= Len(lastOp.zipData)
  /\ getUint32(lastOp.zipData, offset) = ZIP_LOCAL_FILE_HEADER_SIGNATURE

\* C40: on every buffer the offsets the extractor visits increase strictly,
\* by at least 30 from a visited header; every header it reads lies within
\* the buffer; and the call ends with data, with the unsupported-compression
\* error or with NotFound.
C40_ScanTerminates ==
  lastOp.op \in ExtractOps =>
    LET visited == lastOp.result.visited
    IN /\ \A i \in 1..(Len(visited) - 1) :
            /\ visited[i] < visited[i + 1]
            /\ IsHeaderAt(visited[i]) => visited[i] + 30 <= visited[i + 1]
       /\ \A i \in 1..Len(visited) :
            IsHeaderAt(visited[i]) => visited[i] + 30 <= Len(lastOp.zipData)
       /\ \/ lastOp.result.status = "ok"
          \/ lastOp.result.error \in
               {"Unsupported compression method: ", "Font file not found in ZIP: "}

\* --------------------------------------- claims on the order of the pages
\* The page numbers that `pages` asks of a document of n pages.
ExpectedPages(pages, n) ==
  LET start == IF pages.hasStart THEN pages.start ELSE 1
      end == IF pages.hasEnd THEN pages.end ELSE n
  IN CASE pages.form = "undefined" -> [i \in 1..n |-> i]
       [] pages.form = "array" -> pages.list
       [] OTHER -> [i \in 1..(end - start + 1) |-> start + i - 1]

\* A step of SpecDoc on an open document whose fonts are all embedded or
\* standard, where the page it rendered, if any, has no mapping error.
CleanStep ==
  /\ ~lastOp'.before
  /\ ~NonEmbedded(lastOp'.target)
  /\ lastOp'.missing = 0

LoadPageCalls(calls) ==
  LET IsLoad(c) == c[1] = "FPDF_LoadPage" IN SelectSeq(calls, IsLoad)

\* What C35 asks of one step.
PagesInOrderStep ==
  /\ (lastOp'.op = "renderPages.start" /\ CleanStep
        /\ PagesValid(lastOp'.pages, PagesOfPdf(lastOp'.target))) =>
       LET expected == ExpectedPages(lastOp'.pages, PagesOfPdf(lastOp'.target))
       IN /\ task.pc = "created"
          /\ lastOp'.status = "pending"
          /\ task'.pc = "encoding"
          /\ <<task'.pageNumber>> \o task'.rest = expected
          /\ LoadPageCalls(lastOp'.calls) = <<(<<"FPDF_LoadPage", expected[1] - 1>>)>>
  /\ (lastOp'.op = "renderPages.resume" /\ CleanStep) =>
       /\ task.pc = "suspended"
       /\ IF task.rest = <<>>
            THEN /\ lastOp'.status = "done"
                 /\ task'.kind = "none"
                 /\ LoadPageCalls(lastOp'.calls) = <<>>
            ELSE /\ lastOp'.status = "pending"
                 /\ task'.pc = "encoding"
                 /\ <<task'.pageNumber>> \o task'.rest = task.rest
                 /\ LoadPageCalls(lastOp'.calls) =
                      <<(<<"FPDF_LoadPage", Head(task.rest) - 1>>)>>
  /\ (lastOp'.op = "renderPages.yield" /\ ~lastOp'.before
        /\ lastOp'.error.message # "encoder failed") =>
       /\ task.pc = "encoding"
       /\ lastOp'.status = "ok"
       /\ lastOp'.pageNumber = task.pageNumber
       /\ lastOp'.value = PagesOfPdf(lastOp'.target)
       /\ task'.pc = "suspended"
       /\ task'.rest = task.rest

PagesLoaded == CallsOf("FPDF_GetPageWidth")

\* C39: each page that renderPage or a step of renderPages obtains through
\* load-page is passed to close-page once.  The page handle is a local of
\* renderPageInternal, so no later operation can close it: the close-page
\* call has to be among the calls of the operation that loaded the page.
C39_LoadedPagesClosed ==
  lastOp.op \in RenderOps =>
    /\ Len(CallsOf("FPDF_ClosePage")) = Len(PagesLoaded)
    /\ \A i \in 1..Len(PagesLoaded) :
         <<"FPDF_ClosePage", PagesLoaded[i][2]>> \in Range(lastOp.calls)


\* ------------------------------ claims on registerFonts and unregisterFont
FontPath(name) == Append(lastOp.directory, name)
\* The entry of the list that comes last among those of the name.
LastEntry(name) ==
  lastOp.fonts[CHOOSE i \in 1..Len(lastOp.fonts) :
                 /\ lastOp.fonts[i].name = name
                 /\ \A j \in (i + 1)..Len(lastOp.fonts) : lastOp.fonts[j].name # name]
ListedPaths == {FontPath(lastOp.fonts[i].name) : i \in 1..Len(lastOp.fonts)}
\* Every path of before but those of paths is there as it was, and no other
\* file has appeared.
OthersUnchanged(paths) ==
  /\ \A p \in DOMAIN lastOp.before \ paths :
       p \in DOMAIN modules[1].fs /\ modules[1].fs[p] = lastOp.before[p]
  /\ \A p \in DOMAIN modules[1].fs \ (DOMAIN lastOp.before \cup paths) :
       modules[1].fs[p] = DirNode /\ p \in Components

\* C36: once registerFonts has returned, the file of every font of the list
\* holds the data of the last entry of its name and every other file is as it
\* was; unregisterFont never throws, removes the file of the name when there
\* is one and leaves every other path alone.
C36_FontFilesWrittenAndRemoved ==
  /\ (lastOp.op = "registerFonts" /\ lastOp.status = "ok") =>
       /\ \A i \in 1..Len(lastOp.fonts) :
            LET name == lastOp.fonts[i].name
            IN /\ FontPath(name) \in DOMAIN modules[1].fs
               /\ modules[1].fs[FontPath(name)] = FileNode(LastEntry(name).data)
       /\ OthersUnchanged(ListedPaths)
  /\ lastOp.op = "unregisterFont" =>
       /\ lastOp.status = "ok"
       /\ (FontPath(lastOp.fontName) \in DOMAIN lastOp.before
             /\ lastOp.before[FontPath(lastOp.fontName)].mode = "file") =>
            FontPath(lastOp.fontName) \notin DOMAIN modules[1].fs
       /\ OthersUnchanged({FontPath(lastOp.fontName)})

\* unregisterFont has removed a file that registerFonts had written.
C36_Witness ==
  /\ lastOp.op = "unregisterFont"
  /\ FontPath(lastOp.fontName) \in DOMAIN lastOp.before
  /\ lastOp.before[FontPath(lastOp.fontName)] = FileNode(<<1>>)
  /\ FontPath(lastOp.fontName) \notin DOMAIN modules[1].fs
  /\ lastOp.status = "ok"

====
